---- MODULE Spec2Model ----
(***************************************************************************)
(* Model of the synchronisation engine of mcScrapiscrape                   *)
(* (src/tui_scraper.py, run_scrape_worker and its closures, with           *)
(* fetch_game_info / download_media of src/scraper.py).                    *)
(*                                                                         *)
(* Strings are sequences of one-character strings, so that prefixes,       *)
(* extensions and letter case are computed and not assumed.                *)
(***************************************************************************)
EXTENDS Integers, Sequences, FiniteSets, TLC

(***************************************************************************)
(* Bounds of the model.                                                    *)
(***************************************************************************)
\* number of pool threads (the `threads` argument of run_scrape_worker)
NumThreads == 2
\* number of scheduled tasks in the specification Spec
MaxTasks == 3
\* number of scheduled tasks in the specification SpecLong
LongTasks == 11

(***************************************************************************)
(* Program constants.                                                      *)
(***************************************************************************)
\* update_progress: "if completed % 10 == 0"
FlushEvery == 10
\* rating = float(rating_raw) / 20.0
RatingDivisor == 20

(***************************************************************************)
(* Strings.                                                                *)
(***************************************************************************)
Digits == {"0", "1", "2", "3", "4", "5", "6", "7", "8", "9"}

DigitVal(c) ==
    CASE c = "0" -> 0 [] c = "1" -> 1 [] c = "2" -> 2 [] c = "3" -> 3
      [] c = "4" -> 4 [] c = "5" -> 5 [] c = "6" -> 6 [] c = "7" -> 7
      [] c = "8" -> 8 [] c = "9" -> 9

DigitChar(d) ==
    CASE d = 0 -> "0" [] d = 1 -> "1" [] d = 2 -> "2" [] d = 3 -> "3"
      [] d = 4 -> "4" [] d = 5 -> "5" [] d = 6 -> "6" [] d = 7 -> "7"
      [] d = 8 -> "8" [] d = 9 -> "9"

\* str.lower() on the alphabet the model uses
LowerChar(c) ==
    CASE c = "S" -> "s"
      [] c = "T" -> "t"
      [] c = "Z" -> "z"
      [] OTHER -> c

Lower(s) == [i \in 1..Len(s) |-> LowerChar(s[i])]

StartsWith(s, p) == Len(s) >= Len(p) /\ SubSeq(s, 1, Len(p)) = p

DropFirst(s, n) == SubSeq(s, n + 1, Len(s))

\* str.replace(old, ""), for a one-character old
RECURSIVE RemoveChar(_, _)
RemoveChar(s, c) ==
    IF s = <<>> THEN <<>>
    ELSE IF Head(s) = c THEN RemoveChar(Tail(s), c)
         ELSE <<Head(s)>> \o RemoveChar(Tail(s), c)

\* str.isdigit(): non-empty and every character a digit
IsDigit(s) == s # <<>> /\ \A i \in 1..Len(s) : s[i] \in Digits

CountChar(s, c) == Cardinality({i \in 1..Len(s) : s[i] = c})

\* os.path.splitext(name)[0]: the name up to its last dot, leading dots
\* not counting as an extension separator
SplitextBase(name) ==
    LET lead == CHOOSE k \in 0..Len(name) :
                   /\ \A i \in 1..k : name[i] = "."
                   /\ (k < Len(name) => name[k + 1] # ".")
        dots == {i \in (lead + 2)..Len(name) : name[i] = "."}
    IN  IF dots = {} THEN name
        ELSE SubSeq(name, 1, (CHOOSE i \in dots : \A j \in dots : j <= i) - 1)

DotSlash == <<".", "/">>
DotBackslash == <<".", "\\">>
DotDotSlash == <<".", ".", "/">>

(***************************************************************************)
(* Decimal rendering used by the rating transform.                         *)
(***************************************************************************)
RECURSIVE Pow10(_)
Pow10(k) == IF k = 0 THEN 1 ELSE 10 * Pow10(k - 1)

RECURSIVE DigitsToNat(_)
DigitsToNat(s) ==
    IF s = <<>> THEN 0
    ELSE 10 * DigitsToNat(SubSeq(s, 1, Len(s) - 1)) + DigitVal(s[Len(s)])

RECURSIVE NatToStr(_)
NatToStr(n) ==
    IF n < 10 THEN <<DigitChar(n)>>
    ELSE NatToStr(n \div 10) \o <<DigitChar(n % 10)>>

\* n written with exactly k digits (leading zeros)
RECURSIVE PadNat(_, _)
PadNat(n, k) ==
    IF k = 0 THEN <<>> ELSE PadNat(n \div 10, k - 1) \o <<DigitChar(n % 10)>>

RECURSIVE StripTrailingZeros(_)
StripTrailingZeros(s) ==
    IF s # <<>> /\ s[Len(s)] = "0"
    THEN StripTrailingZeros(SubSeq(s, 1, Len(s) - 1))
    ELSE s

\* float(rating_raw) raises ValueError: reached only when the text without
\* its dots is all digits, and then exactly when it holds two dots or more
FloatRaises(raw) == CountChar(raw, ".") >= 2

\* str(float(raw) / 20.0) for a text of digits with at most one dot:
\* raw = n / 10^k, so raw / 20 = 5n / 10^(k+2), a finite decimal that Python
\* prints with its trailing zeros removed and at least one fraction digit
\* (values in [1e-4, 1e16), which the bounded inputs stay in)
RatingString(raw) ==
    LET dot  == IF CountChar(raw, ".") = 0 THEN Len(raw) + 1
                ELSE CHOOSE i \in 1..Len(raw) : raw[i] = "."
        k    == IF dot > Len(raw) THEN 0 ELSE Len(raw) - dot
        n    == DigitsToNat(RemoveChar(raw, "."))
        num  == (100 \div RatingDivisor) * n
        unit == Pow10(k + 2)
        frac == StripTrailingZeros(PadNat(num % unit, k + 2))
    IN  NatToStr(num \div unit) \o <<".">> \o (IF frac = <<>> THEN <<"0">> ELSE frac)

(***************************************************************************)
(* Configuration: systems, rom files, media types.                         *)
(***************************************************************************)
\* the selected systems, in selection order (system_groups keeps this order)
SystemOrder == <<"A", "B">>
Systems == {SystemOrder[i] : i \in 1..Len(SystemOrder)}

RomS == <<"s", ".", "7", "z">>
RomSUpper == <<"S", ".", "7", "z">>
RomT == <<"t", ".", "7", "z">>

\* MEDIA_MAPPING: media type -> folder (the extension is "png" for all)
MEDIA_MAPPING ==
    [m \in {"box-2D", "box-3D", "screenmarquee", "mixrbv2", "ss"} |->
        CASE m = "box-2D" -> "covers"
          [] m = "box-3D" -> "3dboxes"
          [] m = "screenmarquee" -> "marquees"
          [] m = "mixrbv2" -> "miximages"
          [] m = "ss" -> "screenshots"]

\* tag_mapping of process_rom_task: media type -> node tag
tag_mapping ==
    [m \in {"box-2D", "box-3D", "screenmarquee", "video", "wheel", "fanart", "ss"} |->
        CASE m = "box-2D" -> "image"
          [] m = "box-3D" -> "thumbnail"
          [] m = "screenmarquee" -> "marquee"
          [] m = "video" -> "video"
          [] m = "wheel" -> "marquee"
          [] m = "fanart" -> "fanart"
          [] m = "ss" -> "image"]

\* the media types selected in the media list
selected_media_types == {"box-2D"}

\* out_path = <media_path>/<folder>/<base_name>.<ext>, as a file identity
MediaFile(sys, folder, base) == [sys |-> sys, folder |-> folder, base |-> base]

\* relative_es_path
RelativeEsPath(sys, folder, base) ==
    <<"../downloaded_media/", sys, "/", folder, "/">> \o base \o <<".", "png">>

(***************************************************************************)
(* Documents: a gameList root is a sequence of game elements, a game       *)
(* element a sequence of child nodes, in document order.                   *)
(***************************************************************************)
Node(tag, text) == [tag |-> tag, text |-> text]

NoNode == [tag |-> "<none>", text |-> <<>>]

\* Element.find(tag): the first child with that tag, or None
Find(game, tag) ==
    IF \E i \in 1..Len(game) : game[i].tag = tag
    THEN game[CHOOSE i \in 1..Len(game) :
                 /\ game[i].tag = tag
                 /\ \A j \in 1..(i - 1) : game[j].tag # tag]
    ELSE NoNode

\* Element.remove(Element.find(tag)): drops the first child with that tag
RemoveFirst(game, tag) ==
    IF Find(game, tag) = NoNode THEN game
    ELSE LET i == CHOOSE k \in 1..Len(game) :
                     /\ game[k].tag = tag
                     /\ \A j \in 1..(k - 1) : game[j].tag # tag
         IN  SubSeq(game, 1, i - 1) \o SubSeq(game, i + 1, Len(game))

\* ET.SubElement(game, tag).text = text
SubElement(game, tag, text) == Append(game, Node(tag, text))

\* the clearing loop taking the cover reference with the scalar nodes
ScalarTagsAndImage ==
    <<"name", "desc", "releasedate", "developer", "publisher", "genre",
      "players", "rating", "image">>

\* the tags the clearing loop of process_rom_task goes through
ScalarTags ==
    <<"name", "desc", "releasedate", "developer", "publisher", "genre",
      "players", "rating">>

\* a record found by its path and left as it is, nothing removed
ClearNothing(game, i) == game

\* the loop that removes the first node of each scalar tag; the record a
\* turn leaves is the value the next turn starts from
RECURSIVE ClearScalars(_, _)
ClearScalars(game, i) ==
    IF i > Len(ScalarTags) THEN game
    ELSE CHOOSE cleared \in {ClearScalars(g, i + 1) :
                                g \in {RemoveFirst(game, ScalarTags[i])}} : TRUE

\* search_paths without the backslash form
SearchPathsNoBackslash(rom) == {DotSlash \o rom, rom}

\* search_paths of process_rom_task
SearchPaths(rom) == {DotSlash \o rom, rom, DotBackslash \o rom}

\* the comparison with search_paths left out
PathMatchesAny(game, rom) == Find(game, "path") # NoNode

\* "p_node is not None and p_node.text in search_paths"
PathMatches(game, rom) ==
    /\ Find(game, "path") # NoNode
    /\ Find(game, "path").text \in SearchPaths(rom)

\* index of the first game element of root matching rom, 0 when none
FindGame(root, rom) ==
    IF \E i \in 1..Len(root) : PathMatches(root[i], rom)
    THEN CHOOSE i \in 1..Len(root) :
            /\ PathMatches(root[i], rom)
            /\ \A j \in 1..(i - 1) : ~PathMatches(root[j], rom)
    ELSE 0

\* the first locked block of process_rom_task: find the entry or create
\* it with its path node; an entry that exists loses its scalar nodes
UpsertEntry(root, rom) ==
    LET g == FindGame(root, rom)
    IN  IF g = 0
        THEN Append(root, <<Node("path", DotSlash \o rom)>>)
        ELSE [root EXCEPT ![g] = ClearScalars(root[g], 1)]

\* the index game_elem designates after UpsertEntry
UpsertIndex(root, rom) ==
    IF FindGame(root, rom) = 0 THEN Len(root) + 1 ELSE FindGame(root, rom)

(***************************************************************************)
(* Remote responses and field extraction.                                  *)
(***************************************************************************)
\* a key that is absent, and a value that is not a str
Missing == <<"<missing>">>
NotStr == <<"<notstr>">>

\* get_text(d, keys, default)
get_text(v, default) == IF v \in {Missing, NotStr} THEN default ELSE v

EmptyJeu ==
    [noms |-> Missing, synopsis |-> Missing, dates |-> Missing,
     developpeur |-> Missing, editeur |-> Missing, genres |-> Missing,
     joueurs |-> Missing, note |-> Missing, medias |-> <<>>]

\* fetch_game_info returned None (HTTP 430/404/400/other, transport error)
InfoNone == [kind |-> "none", jeu |-> EmptyJeu]
\* a JSON answer whose "response" holds no "jeu"
InfoNoJeu == [kind |-> "nojeu", jeu |-> EmptyJeu]

InfoJeu(j) == [kind |-> "jeu", jeu |-> j]

\* every answer taken for one that holds a game
HasJeuAlways(info) == TRUE

\* "not info or 'jeu' not in response_data"
HasJeu(info) == info.kind = "jeu"

\* the release date transform without its branch for four characters
ReleaseDateNoYear(text) ==
    IF text # <<>> /\ Len(text) = 10
    THEN RemoveChar(text, "-") \o <<"T", "0", "0", "0", "0", "0", "0">>
    ELSE text

\* the release date transform
ReleaseDate(text) ==
    IF text # <<>> /\ Len(text) = 10
    THEN RemoveChar(text, "-") \o <<"T", "0", "0", "0", "0", "0", "0">>
    ELSE IF text # <<>> /\ Len(text) = 4
         THEN text \o <<"0", "1", "0", "1", "T", "0", "0", "0", "0", "0", "0">>
         ELSE text

rating_raw(jeu) == get_text(jeu.note, <<"0">>)

\* the rating line raises ValueError and the task dies with it
ExtractionRaises(jeu) ==
    /\ IsDigit(RemoveChar(rating_raw(jeu), "."))
    /\ FloatRaises(rating_raw(jeu))

Rating(jeu) ==
    IF IsDigit(RemoveChar(rating_raw(jeu), "."))
    THEN RatingString(rating_raw(jeu))
    ELSE <<"0">>

\* game with one more node when cond holds
AddIf(game, cond, tag, text) == IF cond THEN SubElement(game, tag, text) ELSE game

\* the locked block that writes the fetched scalar nodes
WithMetadata(game, jeu, base_name) ==
    LET name        == get_text(jeu.noms, base_name)
        desc        == get_text(jeu.synopsis, <<>>)
        releasedate == ReleaseDate(get_text(jeu.dates, <<>>))
        developer   == get_text(jeu.developpeur, <<>>)
        publisher   == get_text(jeu.editeur, <<>>)
        genre       == get_text(jeu.genres, <<>>)
        players     == get_text(jeu.joueurs, <<"1">>)
        rating      == Rating(jeu)
        g1 == SubElement(game, "name", name)
        g2 == SubElement(g1, "desc", desc)
        g3 == AddIf(g2, releasedate # <<>>, "releasedate", releasedate)
        g4 == AddIf(g3, developer # <<>>, "developer", developer)
        g5 == AddIf(g4, publisher # <<>>, "publisher", publisher)
        g6 == AddIf(g5, genre # <<>>, "genre", genre)
        g7 == AddIf(g6, players # <<>>, "players", players)
    IN  AddIf(g7, rating # <<"0">>, "rating", rating)

\* the locked block of the failure branch
WithStubName(game, base_name) == SubElement(game, "name", base_name)

\* "if game_elem.find(node_tag) is None: SubElement(...)"
WithAssetNode(game, node_tag, path) ==
    IF Find(game, node_tag) = NoNode THEN SubElement(game, node_tag, path) ELSE game

(***************************************************************************)
(* State.                                                                  *)
(***************************************************************************)
VARIABLES
    tasks,      \* all_systems_roms: the scheduled (rom, system) tasks, in order
    remote,     \* what the catalog answers for each task of this run
    loaded,     \* system_groups as loaded before the pool starts
    docs,       \* system_groups: the in-memory document of each system
    persisted,  \* the gamelist.xml file of each system
    files,      \* the media files on disk
    lock,       \* the thread inside "with self.xml_lock", or NoThread
    cancelled,  \* worker.is_cancelled
    completed,  \* the nonlocal counter of update_progress
    next,       \* position of the next task the executor hands out
    th,         \* per thread: position in the code and local variables
    status,     \* per task: queued, skipped, running, finished, raised
    events,     \* per task: progress events emitted (progress_bar.advance)
    reports,    \* completion log lines: how many, and the index of the last
    periodic,   \* counters of the periodic flush
    scan,       \* the scan that computes the task list: inputs and loop position
    idem,       \* one task result applied to one document once and twice
    ui,         \* the form start_scraping reads, and what became of the request
    audit,      \* run_check_media_worker: inputs, loop position, counts, rows
    cli         \* scraper.py main: count, the lines printed, print_lock, threads

vars ==
    <<cli, ui, audit, scan, idem, tasks, remote, loaded, docs, persisted, files, lock, cancelled,
      completed, next, th, status, events, reports, periodic>>

RunThread == 0
Workers == 1..NumThreads
Threads == Workers \cup {RunThread}
NoThread == -1

NumTasks == Len(tasks)
TaskIds == 1..NumTasks

\* the gamelist file of a system: absent, or holding a document
FileAbsent == [state |-> "absent", root |-> <<>>]
FileOf(root) == [state |-> "ok", root |-> root]
FileTruncated == [state |-> "truncated", root |-> <<>>]
\* a file that holds these records and that ET.parse rejects (one stray
\* character is enough)
FileCorrupt(root) == [state |-> "corrupt", root |-> root]

\* "if os.path.exists(gl_path): try ET.parse ... except: empty gameList
\*  else: empty gameList"
LoadGamelist(f) == IF f.state = "ok" THEN f.root ELSE <<>>

Task(sys, rom) == [sys |-> sys, rom |-> rom]

IdleLocals ==
    [pc |-> "idle", cur |-> 0, info |-> InfoNone, elem |-> 0, mi |-> 0,
     tmp |-> 0, fs |-> 0, fetched |-> FALSE]

\* the scan is over: its loop variables hold nothing
ScanIdle ==
    [fix_mode |-> FALSE, nt |-> FALSE, selected |-> selected_media_types,
     dir |-> [s \in Systems |-> <<>>], si |-> 0, ri |-> 0,
     gwm |-> {}, to_scrape |-> <<>>, seen |-> {}]

\* no task result is being applied
IdemIdle ==
    [step |-> 0, rom |-> <<>>, info |-> InfoNone, asset |-> FALSE,
     doc |-> <<>>, once |-> <<>>, twice |-> <<>>]

\* the fields start_scraping requires
RequiredFields == {"rom-dir", "scrape-dir", "user", "password", "devid", "devpassword"}

\* the form of a run that was accepted: every required field filled, the
\* systems selected
UiRunning ==
    [fields |-> [f \in RequiredFields |-> <<"x">>], systems |-> SystemOrder,
     state |-> "running"]

\* no audit was asked for
AuditIdle ==
    [pc |-> "off", nt |-> FALSE, selected |-> {}, dir |-> [s \in Systems |-> <<>>],
     si |-> 0, ri |-> 0, meta |-> <<>>, stats |-> <<>>, lines |-> {}, rows |-> <<>>]

(***************************************************************************)
(* Initial states.                                                         *)
(***************************************************************************)
JeuOk ==
    [EmptyJeu EXCEPT !.noms = <<"N">>, !.synopsis = <<"d">>,
                     !.note = <<"1", "8">>,
                     !.medias = <<[type |-> "box-2D", url |-> TRUE]>>]

JeuBadRating == [JeuOk EXCEPT !.note = <<"1", ".", "2", ".", "3">>]

ExistingGame(path) ==
    <<Node("path", path), Node("name", <<"o">>), Node("desc", <<"x">>)>>

\* a record that already refers to a cover, by a path of its own
OldImage == <<"o", "l", "d", ".", "p", "n", "g">>
ExistingGameWithImage(path) == Append(ExistingGame(path), Node("image", OldImage))

\* gamelist files a run may find for the first system
InitialFiles ==
    {FileAbsent,
     FileOf(<<ExistingGame(DotSlash \o RomS)>>),
     FileOf(<<ExistingGame(DotDotSlash \o RomSUpper)>>),
     FileOf(<<ExistingGameWithImage(DotSlash \o RomS)>>),
     FileCorrupt(<<ExistingGame(DotSlash \o RomT)>>)}

\* rom files the directory listings may hold, in scheduling order
TaskPool == <<Task("A", RomS), Task("A", RomSUpper), Task("A", RomT), Task("B", RomS)>>

\* the task lists of n tasks: the sub-lists of TaskPool
TaskLists(n) ==
    {[i \in 1..n |-> TaskPool[pick[i]]] :
        pick \in {p \in [1..n -> 1..Len(TaskPool)] :
                     \A i \in 1..(n - 1) : p[i] < p[i + 1]}}

\* what the catalog answers for each rom name of each system: a game,
\* nothing (the lookup fails), a game whose rating text is "1.2.3", an
\* answer that holds no game
CatalogAnswer(sys, rom) ==
    CASE sys # SystemOrder[1] -> InfoNoJeu
      [] rom = RomS -> InfoJeu(JeuOk)
      [] rom = RomSUpper -> InfoNone
      [] rom = RomT -> InfoJeu(JeuBadRating)

InitialMedia ==
    {{}, {MediaFile("A", MEDIA_MAPPING["box-2D"], SplitextBase(RomS))}}

\* the roms main hands to its pool
CliRoms == 3

\* scraper.py main before its pool starts: count = 0, nothing printed,
\* print_lock free, every pool thread idle
CliIdle ==
    [count |-> 0, lines |-> <<>>, games |-> <<>>, next |-> 1, print_lock |-> NoThread,
     w |-> [t \in Workers |-> [pc |-> "idle", cur |-> 0, tmp |-> 0]]]

InitCommon ==
    /\ loaded = [s \in Systems |-> LoadGamelist(persisted[s])]
    /\ docs = loaded
    /\ lock = NoThread
    /\ cancelled = FALSE
    /\ completed = 0
    /\ next = 1
    /\ th = [t \in Threads |->
               IF t = RunThread THEN [IdleLocals EXCEPT !.pc = "start"] ELSE IdleLocals]
    /\ status = [i \in TaskIds |-> "queued"]
    /\ events = [i \in TaskIds |-> 0]
    /\ reports = [count |-> 0, last |-> 0]
    /\ periodic = [emitted |-> 0, multiples |-> 0, triggers |-> 0]
    /\ cli = CliIdle
    /\ scan = ScanIdle
    /\ idem = IdemIdle
    /\ ui = UiRunning
    /\ audit = AuditIdle

Init ==
    /\ tasks \in TaskLists(MaxTasks)
    /\ remote = [i \in 1..MaxTasks |-> CatalogAnswer(tasks[i].sys, tasks[i].rom)]
    /\ persisted \in {[s \in Systems |->
                            IF s = SystemOrder[1] THEN f
                            ELSE FileOf(<<ExistingGame(DotSlash \o RomS)>>)] :
                         f \in InitialFiles}
    /\ files \in InitialMedia
    /\ InitCommon

\* a long run: more tasks than FlushEvery, all of one system and all with
\* an entry in the loaded document, the first answered with a game and the
\* others failing
LongRom(i) == <<"r">> \o NatToStr(i) \o <<".", "7", "z">>

InitLong ==
    /\ tasks = [i \in 1..LongTasks |-> Task("A", LongRom(i))]
    /\ remote = [i \in 1..LongTasks |-> IF i = 1 THEN InfoJeu(JeuOk) ELSE InfoNone]
    /\ persisted =
          [s \in Systems |->
              IF s = "A"
              THEN FileOf([i \in 1..LongTasks |-> ExistingGame(DotSlash \o LongRom(i))])
              ELSE FileAbsent]
    /\ files = {}
    /\ InitCommon

(***************************************************************************)
(* The lock.  Entering "with self.xml_lock" is a step of its own: the      *)
(* thread waits at the block until no thread is inside; the body of the    *)
(* block and the release are the next step.                                *)
(***************************************************************************)
\* a lock that lets every thread in
LockFreeNoWait == TRUE

\* entering "with self.xml_lock" waits until no thread is inside
LockFree == lock = NoThread

\* the block that writes the scalar nodes extended over the media loop:
\* the lock is still held when the downloads start
ReleaseLockLate(t) == IF th[t].pc = "in_meta" THEN t ELSE NoThread

\* leaving "with self.xml_lock" (normally or by an exception)
ReleaseLock(t) == NoThread

\* positions of a thread waiting at a locked block, and inside it
LockPcs == {"upsert", "stub", "meta", "node", "save"}

InsidePc(p) ==
    CASE p = "upsert" -> "in_upsert"
      [] p = "stub" -> "in_stub"
      [] p = "meta" -> "in_meta"
      [] p = "node" -> "in_node"
      [] p = "save" -> "in_save"

\* "with self.xml_lock:" is entered
Acquire(t) ==
    /\ th[t].pc \in LockPcs
    /\ LockFree
    /\ lock' = t
    /\ th' = [th EXCEPT ![t].pc = InsidePc(th[t].pc),
                        ![t].fs = IF th[t].pc = "save" THEN 1 ELSE 0]
    /\ UNCHANGED <<cli, ui, audit, scan, idem, tasks, remote, loaded, docs, persisted, files, cancelled,
                   completed, next, status, events, reports, periodic>>

(***************************************************************************)
(* process_rom_task, one action per step of a pool thread.                 *)
(***************************************************************************)
CurTask(w) == tasks[th[w].cur]
CurBase(w) == SplitextBase(CurTask(w).rom)

\* the task ends: the pool thread is idle again
EndTask(w, how) ==
    /\ th' = [th EXCEPT ![w] = IdleLocals]
    /\ status' = [status EXCEPT ![th[w].cur] = how]

\* the pool threads are interchangeable: the executor gives the next task
\* to an idle one, taken here to be the first
FirstIdle(w) ==
    /\ th[w].pc = "idle"
    /\ \A v \in Workers : v < w => th[v].pc # "idle"

\* the executor hands the next queued task to an idle pool thread, and the
\* task begins with "if worker.is_cancelled: return"
StartTask(w) ==
    /\ th[RunThread].pc = "pool"
    /\ FirstIdle(w)
    /\ next <= NumTasks
    /\ next' = next + 1
    /\ IF cancelled
       THEN /\ status' = [status EXCEPT ![next] = "skipped"]
            /\ th' = th
       ELSE /\ status' = [status EXCEPT ![next] = "running"]
            /\ th' = [th EXCEPT ![w] = [IdleLocals EXCEPT !.pc = "fetch", !.cur = next]]
    /\ UNCHANGED <<cli, ui, audit, scan, idem, tasks, remote, loaded, docs, persisted, files, lock,
                   cancelled, completed, events, reports, periodic>>

\* info = fetch_game_info(...): the network call returns
FetchGameInfo(w) ==
    /\ th[w].pc = "fetch"
    /\ th' = [th EXCEPT ![w].info = remote[th[w].cur], ![w].pc = "upsert"]
    /\ UNCHANGED <<cli, ui, audit, scan, idem, tasks, remote, loaded, docs, persisted, files, lock,
                   cancelled, completed, next, status, events, reports, periodic>>

\* the first locked block: find or create the entry
FindOrCreate(w) ==
    /\ th[w].pc = "in_upsert"
    /\ LET sys == CurTask(w).sys
           rom == CurTask(w).rom
       IN  /\ docs' = [docs EXCEPT ![sys] = UpsertEntry(docs[sys], rom)]
           /\ th' = [th EXCEPT ![w].elem = UpsertIndex(docs[sys], rom),
                               ![w].pc = "log"]
    /\ lock' = ReleaseLock(w)
    /\ UNCHANGED <<cli, ui, audit, scan, idem, tasks, remote, loaded, persisted, files, cancelled,
                   completed, next, status, events, reports, periodic>>

\* the index the completion line shows: completed + 1, read when logging
ReportedIndex == completed + 1

\* safe_log("[{completed + 1}/{total_tasks}] ... {status}"), then the branch
\* on the answer; with a game, the field extraction runs and may raise
LogStatus(w) ==
    /\ th[w].pc = "log"
    /\ reports' = [count |-> reports.count + 1, last |-> ReportedIndex]
    /\ IF ~HasJeu(th[w].info)
       THEN /\ th' = [th EXCEPT ![w].pc = "stub"]
            /\ status' = status
       ELSE IF ExtractionRaises(th[w].info.jeu)
            THEN EndTask(w, "raised")
            ELSE /\ th' = [th EXCEPT ![w].pc = "meta"]
                 /\ status' = status
    /\ UNCHANGED <<cli, ui, audit, scan, idem, tasks, remote, loaded, docs, persisted, files, lock,
                   cancelled, completed, next, events, periodic>>

\* failure branch: the name node, under the lock; then update_progress
AddStubName(w) ==
    /\ th[w].pc = "in_stub"
    /\ docs' = [docs EXCEPT ![CurTask(w).sys][th[w].elem] = WithStubName(@, CurBase(w))]
    /\ lock' = ReleaseLock(w)
    /\ th' = [th EXCEPT ![w].pc = "inc_read"]
    /\ UNCHANGED <<cli, ui, audit, scan, idem, tasks, remote, loaded, persisted, files, cancelled,
                   completed, next, status, events, reports, periodic>>

\* a media entry is handled when its type is selected and mapped and it
\* carries a url
MediaWanted(m) ==
    /\ m.type \in scan.selected
    /\ m.type \in DOMAIN MEDIA_MAPPING
    /\ m.url

\* the media loop asking for every wanted entry, its file there or not
RECURSIVE MediaTurnAlwaysGet(_, _, _, _, _)
MediaTurnAlwaysGet(locals, sys, base, i, onDisk) ==
    LET medias == locals.info.jeu.medias
    IN  IF i > Len(medias)
        THEN [locals EXCEPT !.pc = "inc_read", !.mi = 0, !.fetched = FALSE]
        ELSE IF ~MediaWanted(medias[i])
             THEN MediaTurnAlwaysGet(locals, sys, base, i + 1, onDisk)
             ELSE [locals EXCEPT !.pc = "download", !.mi = i, !.fetched = FALSE]

\* "for m in medias", from entry i on, up to the next entry that needs a
\* download or a node: entries not wanted are skipped, a wanted entry whose
\* file exists counts as a success; after the last entry, update_progress.
\* The turn reads only the task's own media files.
RECURSIVE MediaTurn(_, _, _, _, _)
MediaTurn(locals, sys, base, i, onDisk) ==
    LET medias == locals.info.jeu.medias
    IN  IF i > Len(medias)
        THEN [locals EXCEPT !.pc = "inc_read", !.mi = 0, !.fetched = FALSE]
        ELSE IF ~MediaWanted(medias[i])
             THEN MediaTurn(locals, sys, base, i + 1, onDisk)
             ELSE IF MediaFile(sys, MEDIA_MAPPING[medias[i].type], base) \notin onDisk
                  THEN [locals EXCEPT !.pc = "download", !.mi = i, !.fetched = FALSE]
                  ELSE IF medias[i].type \in DOMAIN tag_mapping
                       THEN [locals EXCEPT !.pc = "node", !.mi = i, !.fetched = FALSE]
                       ELSE MediaTurn(locals, sys, base, i + 1, onDisk)

\* success branch: the scalar nodes, under the lock; then the media loop
AddMetadata(w) ==
    /\ th[w].pc = "in_meta"
    /\ docs' = [docs EXCEPT ![CurTask(w).sys][th[w].elem] =
                                WithMetadata(@, th[w].info.jeu, CurBase(w))]
    /\ lock' = ReleaseLock(w)
    /\ th' = [th EXCEPT ![w] = MediaTurn(th[w], CurTask(w).sys, CurBase(w), 1, files)]
    /\ UNCHANGED <<cli, ui, audit, scan, idem, tasks, remote, loaded, persisted, files, cancelled,
                   completed, next, status, events, reports, periodic>>

CurMedia(w) == th[w].info.jeu.medias[th[w].mi]
CurMediaFile(w) ==
    MediaFile(CurTask(w).sys, MEDIA_MAPPING[CurMedia(w).type], CurBase(w))

\* download_media returns: the file written (True), nothing written
\* (False), or the file opened and the read failing (False); "fetched"
\* tells a success by download from a success by "the file exists"
DownloadOutcomes == {"written", "no_file", "opened_then_failed"}

DownloadMedia(w) ==
    /\ th[w].pc = "download"
    /\ \E outcome \in DownloadOutcomes :
          /\ files' = IF outcome = "no_file" THEN files
                      ELSE files \cup {CurMediaFile(w)}
          /\ th' = [th EXCEPT ![w] =
                      IF outcome = "written" /\ CurMedia(w).type \in DOMAIN tag_mapping
                      THEN [th[w] EXCEPT !.pc = "node", !.fetched = TRUE]
                      ELSE MediaTurn(th[w], CurTask(w).sys, CurBase(w),
                                     th[w].mi + 1, files')]
    /\ UNCHANGED <<cli, ui, audit, scan, idem, tasks, remote, loaded, docs, persisted, lock, cancelled,
                   completed, next, status, events, reports, periodic>>

\* the asset-reference node, under the lock; then the loop goes on
AddAssetNode(w) ==
    /\ th[w].pc = "in_node"
    /\ LET sys  == CurTask(w).sys
           m    == CurMedia(w).type
           path == RelativeEsPath(sys, MEDIA_MAPPING[m], CurBase(w))
       IN  docs' = [docs EXCEPT ![sys][th[w].elem] = WithAssetNode(@, tag_mapping[m], path)]
    /\ lock' = ReleaseLock(w)
    /\ th' = [th EXCEPT ![w] = MediaTurn(th[w], CurTask(w).sys, CurBase(w),
                                         th[w].mi + 1, files)]
    /\ UNCHANGED <<cli, ui, audit, scan, idem, tasks, remote, loaded, persisted, files, cancelled,
                   completed, next, status, events, reports, periodic>>

(***************************************************************************)
(* update_progress and save_all_gamelists.                                 *)
(***************************************************************************)
\* "completed += 1" is a read and a write of the shared counter, with no
\* lock around them
IncRead(w) ==
    /\ th[w].pc = "inc_read"
    /\ th' = [th EXCEPT ![w].tmp = completed, ![w].pc = "inc_write"]
    /\ UNCHANGED <<cli, ui, audit, scan, idem, tasks, remote, loaded, docs, persisted, files, lock,
                   cancelled, completed, next, status, events, reports, periodic>>

\* the write of "completed += 1", then progress_bar.advance(1)
IncWrite(w) ==
    /\ th[w].pc = "inc_write"
    /\ completed' = th[w].tmp + 1
    /\ events' = [events EXCEPT ![th[w].cur] = @ + 1]
    /\ periodic' = [periodic EXCEPT
                      !.emitted = @ + 1,
                      !.multiples = IF (periodic.emitted + 1) % FlushEvery = 0
                                    THEN @ + 1 ELSE @]
    /\ th' = [th EXCEPT ![w].pc = "check", ![w].tmp = 0]
    /\ UNCHANGED <<cli, ui, audit, scan, idem, tasks, remote, loaded, docs, persisted, files, lock,
                   cancelled, next, status, reports>>

\* "if completed % 10 == 0", evaluated on the counter as it is now
FlushDue == completed % FlushEvery = 0

CheckFlush(w) ==
    /\ th[w].pc = "check"
    /\ IF FlushDue
       THEN /\ th' = [th EXCEPT ![w].pc = "save"]
            /\ periodic' = [periodic EXCEPT !.triggers = @ + 1]
            /\ status' = status
       ELSE /\ EndTask(w, "finished")
            /\ periodic' = periodic
    /\ UNCHANGED <<cli, ui, audit, scan, idem, tasks, remote, loaded, docs, persisted, files, lock,
                   cancelled, completed, next, events, reports>>

\* one turn of the loop of save_all_gamelists, inside the lock: the file
\* of one system is written, or makedirs/open raises (the file is as it
\* was), or the write raises after open truncated the file
WriteOutcomes == {"written", "not_opened", "truncated"}

\* the thread leaves save_all_gamelists: a pool thread has finished its
\* task (by an exception when the write raised); the run thread goes on to
\* its last lines, or dies with the exception
AfterFlush(t, ok) ==
    IF t = RunThread
    THEN /\ th' = [th EXCEPT ![t].pc = IF ok THEN "finish" ELSE "crashed",
                             ![t].fs = 0]
         /\ status' = status
    ELSE EndTask(t, IF ok THEN "finished" ELSE "raised")

FlushWrite(t) ==
    /\ th[t].pc = "in_save"
    /\ LET sys == SystemOrder[th[t].fs]
       IN  \E outcome \in WriteOutcomes :
              /\ persisted' =
                    CASE outcome = "written" -> [persisted EXCEPT ![sys] = FileOf(docs[sys])]
                      [] outcome = "not_opened" -> persisted
                      [] outcome = "truncated" -> [persisted EXCEPT ![sys] = FileTruncated]
              /\ IF outcome = "written" /\ th[t].fs < Len(SystemOrder)
                 THEN /\ th' = [th EXCEPT ![t].fs = th[t].fs + 1]
                      /\ lock' = lock
                      /\ status' = status
                 ELSE /\ AfterFlush(t, outcome = "written")
                      /\ lock' = ReleaseLock(t)
    /\ UNCHANGED <<cli, ui, audit, scan, idem, tasks, remote, loaded, docs, files, cancelled, completed,
                   next, events, reports, periodic>>

(***************************************************************************)
(* The run thread: the last lines of run_scrape_worker.                    *)
(***************************************************************************)
\* "if not worker.is_cancelled:" before the pool is created
RunStart ==
    /\ th[RunThread].pc = "start"
    /\ th' = [th EXCEPT ![RunThread].pc = IF cancelled THEN "post" ELSE "pool"]
    /\ UNCHANGED <<cli, ui, audit, scan, idem, tasks, remote, loaded, docs, persisted, files, lock,
                   cancelled, completed, next, status, events, reports, periodic>>

\* the executor's "with" block ends once every task was handed out and
\* every pool thread is idle
PoolDrained == next > NumTasks /\ \A w \in Workers : th[w].pc = "idle"

PoolJoin ==
    /\ th[RunThread].pc = "pool"
    /\ PoolDrained
    /\ th' = [th EXCEPT ![RunThread].pc = "post"]
    /\ UNCHANGED <<cli, ui, audit, scan, idem, tasks, remote, loaded, docs, persisted, files, lock,
                   cancelled, completed, next, status, events, reports, periodic>>

\* the last save left out
NoFlushAfterPool == FALSE

\* "if not worker.is_cancelled:" before the last save_all_gamelists()
FlushAfterPool == ~cancelled

\* "if not worker.is_cancelled: save_all_gamelists()"
FinalCheck ==
    /\ th[RunThread].pc = "post"
    /\ th' = [th EXCEPT ![RunThread].pc = IF FlushAfterPool THEN "save" ELSE "finish"]
    /\ UNCHANGED <<cli, ui, audit, scan, idem, tasks, remote, loaded, docs, persisted, files, lock,
                   cancelled, completed, next, status, events, reports, periodic>>

\* "Scraping complete!" and reset_ui
Finish ==
    /\ th[RunThread].pc = "finish"
    /\ th' = [th EXCEPT ![RunThread].pc = "done"]
    /\ UNCHANGED <<cli, ui, audit, scan, idem, tasks, remote, loaded, docs, persisted, files, lock,
                   cancelled, completed, next, status, events, reports, periodic>>

RunEnded == th[RunThread].pc \in {"done", "crashed"}

\* stop_scraping: worker.cancel(); the flag is read during the scan and up
\* to the check that follows the pool, so a later request changes nothing
Cancel ==
    /\ ~cancelled
    /\ th[RunThread].pc \in {"scan", "start", "pool", "post"}
    /\ cancelled' = TRUE
    /\ UNCHANGED <<cli, ui, audit, scan, idem, tasks, remote, loaded, docs, persisted, files, lock,
                   completed, next, th, status, events, reports, periodic>>

(***************************************************************************)
(* Specifications.                                                         *)
(***************************************************************************)
WorkerStep(w) ==
    \/ StartTask(w)
    \/ FetchGameInfo(w)
    \/ FindOrCreate(w)
    \/ LogStatus(w)
    \/ AddStubName(w)
    \/ AddMetadata(w)
    \/ DownloadMedia(w)
    \/ AddAssetNode(w)
    \/ IncRead(w)
    \/ IncWrite(w)
    \/ CheckFlush(w)

Next ==
    \/ \E w \in Workers : WorkerStep(w)
    \/ \E t \in Threads : Acquire(t)
    \/ \E t \in Threads : FlushWrite(t)
    \/ RunStart
    \/ PoolJoin
    \/ FinalCheck
    \/ Finish
    \/ Cancel

Spec == Init /\ [][Next]_vars

SpecLong == InitLong /\ [][Next]_vars

\* the steps of one thread: a pool thread's task steps, the run thread's
\* last lines, and for both the entry into a locked block and the flush
ThreadStep(t) ==
    \/ t \in Workers /\ WorkerStep(t)
    \/ Acquire(t)
    \/ FlushWrite(t)
    \/ t = RunThread /\ (RunStart \/ PoolJoin \/ FinalCheck \/ Finish)

\* one run for the scheduler: the first roms of the listing, answered with
\* a game, with nothing and with a game whose rating cannot be read, on a
\* document that holds the first rom and no media file
InitLive ==
    /\ tasks = SubSeq(TaskPool, 1, MaxTasks)
    /\ remote = [i \in 1..MaxTasks |-> CatalogAnswer(tasks[i].sys, tasks[i].rom)]
    /\ persisted = [s \in Systems |-> FileOf(<<ExistingGame(DotSlash \o RomS)>>)]
    /\ files = {}
    /\ InitCommon

\* the run under the scheduler: a thread that can take a step is not left
\* aside forever, and network calls return; a cancellation may never come
SpecLive == InitLive /\ [][Next]_vars /\ \A t \in Threads : WF_vars(ThreadStep(t))

(***************************************************************************)
(* A run over the media loop: two tasks of one system, the first answered  *)
(* with a game that offers a cover and a screenshot, the second failing;   *)
(* one or both of the two types selected, their files there or not.        *)
(***************************************************************************)
JeuCoverAndShot ==
    [JeuOk EXCEPT !.medias = <<[type |-> "box-2D", url |-> TRUE],
                               [type |-> "ss", url |-> TRUE]>>]

MediaSelections == {{"box-2D"}, {"ss"}, {"box-2D", "ss"}}

InitMedia ==
    /\ tasks = <<Task(SystemOrder[1], RomS), Task(SystemOrder[1], RomT)>>
    /\ remote = <<InfoJeu(JeuCoverAndShot), InfoNone>>
    /\ persisted \in {[s \in Systems |-> IF s = SystemOrder[1] THEN f ELSE FileAbsent] :
                         f \in {FileAbsent, FileOf(<<ExistingGame(DotSlash \o RomS)>>)}}
    /\ files \in SUBSET {MediaFile(SystemOrder[1], MEDIA_MAPPING[m], SplitextBase(RomS)) :
                            m \in {"box-2D", "ss"}}
    /\ scan \in {[ScanIdle EXCEPT !.selected = sel] : sel \in MediaSelections}
    /\ idem = IdemIdle
    /\ ui = UiRunning
    /\ audit = AuditIdle
    /\ loaded = [s \in Systems |-> LoadGamelist(persisted[s])]
    /\ docs = loaded
    /\ lock = NoThread
    /\ cancelled = FALSE
    /\ completed = 0
    /\ next = 1
    /\ th = [t \in Threads |->
               IF t = RunThread THEN [IdleLocals EXCEPT !.pc = "start"] ELSE IdleLocals]
    /\ status = [i \in TaskIds |-> "queued"]
    /\ events = [i \in TaskIds |-> 0]
    /\ reports = [count |-> 0, last |-> 0]
    /\ periodic = [emitted |-> 0, multiples |-> 0, triggers |-> 0]
    /\ cli = CliIdle

SpecMedia == InitMedia /\ [][Next]_vars

(***************************************************************************)
(* The scan at the head of run_scrape_worker: for each selected system the *)
(* rom directory is listed, the media directories are created, and each    *)
(* rom is kept or not; the roms kept are the task list of the run.         *)
(***************************************************************************)
\* one entry of both rom_exts tuples, the extension of most roms of the model
RomExt == <<".", "7", "z">>

EndsWith(s, x) == Len(s) >= Len(x) /\ SubSeq(s, Len(s) - Len(x) + 1, Len(s)) = x

\* a second entry of rom_exts of run_scrape_worker, one that rom_exts of
\* run_check_media_worker does not hold
RomExtMd == <<".", "m", "d">>

\* the entries of the two rom_exts tuples that file names of the model end
\* with: the one of run_scrape_worker and the one of run_check_media_worker
ScanRomExts == {RomExt, RomExtMd}
AuditRomExts == {RomExt}

\* "f.lower().endswith(rom_exts)" in run_scrape_worker
IsRom(f) == \E x \in ScanRomExts : EndsWith(Lower(f), x)

\* "f.lower().endswith(rom_exts)" in run_check_media_worker
AuditIsRom(f) == \E x \in AuditRomExts : EndsWith(Lower(f), x)

\* roms = [f for f in os.listdir(s_rom_dir) if f.lower().endswith(rom_exts)]
RECURSIVE RomsOf(_)
RomsOf(listing) ==
    IF listing = <<>> THEN <<>>
    ELSE (IF IsRom(Head(listing)) THEN <<Head(listing)>> ELSE <<>>)
            \o RomsOf(Tail(listing))

\* str.strip() on the white space the model uses
RECURSIVE Strip(_)
Strip(s) ==
    IF s = <<>> THEN s
    ELSE IF Head(s) = " " THEN Strip(Tail(s))
         ELSE IF s[Len(s)] = " " THEN Strip(SubSeq(s, 1, Len(s) - 1))
              ELSE s

\* os.path.basename: what follows the last separator, "/" for posixpath,
\* "/" or "\" for ntpath
Basename(p, nt) ==
    LET seps == {i \in 1..Len(p) : p[i] = "/" \/ (nt /\ p[i] = "\\")}
    IN  IF seps = {} THEN p
        ELSE SubSeq(p, (CHOOSE i \in seps : \A j \in seps : j <= i) + 1, Len(p))

\* games_with_metadata: for each game with a path node and a desc node
\* whose stripped text is not empty, basename(path).lower(); empty when
\* not in fix mode, when there is no file, or when the file does not parse
GamesWithMetadata(fix_mode, f, nt) ==
    IF fix_mode /\ f.state = "ok"
    THEN {Lower(Basename(Find(f.root[g], "path").text, nt)) :
            g \in {h \in 1..Len(f.root) :
                      /\ Find(f.root[h], "path") # NoNode
                      /\ Find(f.root[h], "desc") # NoNode
                      /\ Strip(Find(f.root[h], "desc").text) # <<>>}}
    ELSE {}

\* every selected type missing, instead of one
MissingAllMedia(sys, rom, selected, onDisk) ==
    \A m \in selected :
        /\ m \in DOMAIN MEDIA_MAPPING
        /\ MediaFile(sys, MEDIA_MAPPING[m], SplitextBase(rom)) \notin onDisk

\* missing_media: the file of one selected and mapped type is not there
MissingMedia(sys, rom, selected, onDisk) ==
    \E m \in selected :
        /\ m \in DOMAIN MEDIA_MAPPING
        /\ MediaFile(sys, MEDIA_MAPPING[m], SplitextBase(rom)) \notin onDisk

\* should_scrape
ShouldScrape(sys, rom) ==
    \/ MissingMedia(sys, rom, scan.selected, files)
    \/ scan.fix_mode /\ Lower(rom) \notin scan.gwm

ScanSys == SystemOrder[scan.si]
ScanRoms == RomsOf(scan.dir[ScanSys])

\* the head of the loop over the systems: no rom directory or no rom in
\* it, or the media directories cannot be created: the system is passed
\* over; else games_with_metadata is loaded and the roms are gone through
ScanSystem ==
    /\ th[RunThread].pc = "scan"
    /\ scan.si <= Len(SystemOrder)
    /\ scan.ri = 0
    /\ \E made \in (IF scan.selected \cap DOMAIN MEDIA_MAPPING = {} THEN {TRUE} ELSE BOOLEAN) :
          scan' = IF ScanRoms = <<>> \/ ~made
                  THEN [scan EXCEPT !.si = @ + 1]
                  ELSE [scan EXCEPT !.ri = 1, !.to_scrape = <<>>,
                                    !.gwm = GamesWithMetadata(scan.fix_mode,
                                                              persisted[ScanSys], scan.nt)]
    /\ UNCHANGED <<cli, ui, audit, idem, tasks, remote, loaded, docs, persisted, files, lock, cancelled,
                   completed, next, th, status, events, reports, periodic>>

\* one turn of "for rom_name in roms": "if worker.is_cancelled: break",
\* else the rom is kept when should_scrape
ScanRom ==
    /\ th[RunThread].pc = "scan"
    /\ scan.si <= Len(SystemOrder)
    /\ scan.ri >= 1
    /\ scan.ri <= Len(ScanRoms)
    /\ LET rom == ScanRoms[scan.ri]
       IN  scan' = IF cancelled
                   THEN [scan EXCEPT !.ri = Len(ScanRoms) + 1]
                   ELSE [scan EXCEPT
                           !.ri = @ + 1,
                           !.seen = @ \cup {Task(ScanSys, rom)},
                           !.to_scrape = IF ShouldScrape(ScanSys, rom)
                                         THEN Append(@, Task(ScanSys, rom)) ELSE @]
    /\ UNCHANGED <<cli, ui, audit, idem, tasks, remote, loaded, docs, persisted, files, lock, cancelled,
                   completed, next, th, status, events, reports, periodic>>

\* all_systems_roms.extend(roms_to_scrape); "if worker.is_cancelled: break"
ScanExtend ==
    /\ th[RunThread].pc = "scan"
    /\ scan.si <= Len(SystemOrder)
    /\ scan.ri > Len(ScanRoms)
    /\ tasks' = tasks \o scan.to_scrape
    /\ scan' = [scan EXCEPT !.ri = 0, !.to_scrape = <<>>, !.gwm = {},
                            !.si = IF cancelled THEN Len(SystemOrder) + 1 ELSE @ + 1]
    /\ UNCHANGED <<cli, ui, audit, idem, remote, loaded, docs, persisted, files, lock, cancelled,
                   completed, next, th, status, events, reports, periodic>>

\* after the loop: "if not all_systems_roms: ... reset_ui; return", else
\* the run goes on with the task list
ScanEnd ==
    /\ th[RunThread].pc = "scan"
    /\ scan.si > Len(SystemOrder)
    /\ th' = [th EXCEPT ![RunThread].pc = IF tasks = <<>> THEN "nothing" ELSE "scanned"]
    /\ UNCHANGED <<cli, ui, audit, scan, idem, tasks, remote, loaded, docs, persisted, files, lock,
                   cancelled, completed, next, status, events, reports, periodic>>

\* directory listings, selections, media files and gamelist files the scan
\* may find
NotARom == <<"n", ".", "q">>

ScanListings ==
    {[s \in Systems |-> IF s = SystemOrder[1] THEN a ELSE b] :
        a \in {<<RomS>>, <<RomS, NotARom, RomT>>},
        b \in {<<>>, <<RomS>>}}

ScanSelections == {{}, {"box-2D"}, {"box-2D", "ss"}}

ScanMedia ==
    SUBSET {MediaFile(SystemOrder[1], MEDIA_MAPPING["box-2D"], SplitextBase(RomS)),
            MediaFile(SystemOrder[1], MEDIA_MAPPING["ss"], SplitextBase(RomS)),
            MediaFile(SystemOrder[2], MEDIA_MAPPING["box-2D"], SplitextBase(RomS))}

ScanPaths == {DotSlash \o RomS, RomS, DotBackslash \o RomS, DotDotSlash \o RomSUpper}

ScanDescs == {<<>>, <<" ">>, <<"x">>}

ScanFiles ==
    {FileAbsent, FileCorrupt(<<ExistingGame(DotSlash \o RomS)>>)}
      \cup {FileOf(<<(<<Node("path", p), Node("name", <<"o">>)>>)>>) : p \in ScanPaths}
      \cup {FileOf(<<(<<Node("path", p), Node("name", <<"o">>), Node("desc", d)>>)>>) :
                p \in ScanPaths, d \in ScanDescs}

InitScan ==
    /\ scan \in {[ScanIdle EXCEPT !.fix_mode = fm, !.nt = nt, !.selected = sel,
                                   !.dir = ls, !.si = 1] :
                    fm \in BOOLEAN, nt \in BOOLEAN, sel \in ScanSelections,
                    ls \in ScanListings}
    /\ persisted \in {[s \in Systems |-> IF s = SystemOrder[1] THEN f ELSE FileAbsent] :
                         f \in ScanFiles}
    /\ files \in ScanMedia
    /\ tasks = <<>>
    /\ remote = <<>>
    /\ idem = IdemIdle
    /\ ui = UiRunning
    /\ audit = AuditIdle
    /\ loaded = [s \in Systems |-> <<>>]
    /\ docs = loaded
    /\ lock = NoThread
    /\ cancelled = FALSE
    /\ completed = 0
    /\ next = 1
    /\ th = [t \in Threads |->
               IF t = RunThread THEN [IdleLocals EXCEPT !.pc = "scan"] ELSE IdleLocals]
    /\ status = <<>>
    /\ events = <<>>
    /\ reports = [count |-> 0, last |-> 0]
    /\ periodic = [emitted |-> 0, multiples |-> 0, triggers |-> 0]
    /\ cli = CliIdle

NextScan ==
    \/ ScanSystem
    \/ ScanRom
    \/ ScanExtend
    \/ ScanEnd
    \/ Cancel

SpecScan == InitScan /\ [][NextScan]_vars

(***************************************************************************)
(* One task applied to a document, then applied again: process_rom_task    *)
(* run alone, from its first locked block to its last, on one system.      *)
(***************************************************************************)
\* a record of an existing gamelist.xml that holds two name nodes
DoubleNameGame(path) ==
    <<Node("path", path), Node("name", <<"o">>), Node("name", <<"p">>)>>

\* the whole of process_rom_task on the gameList root: the entry found or
\* created, then the stub name when the fetch gave no game, nothing more
\* when the extraction raises, else the metadata and, when the cover was
\* downloaded (asset), its reference node
ApplyTask(root, sys, rom, info, asset) ==
    LET g         == UpsertIndex(root, rom)
        r1        == UpsertEntry(root, rom)
        base_name == SplitextBase(rom)
        medium    == "box-2D"
        path      == RelativeEsPath(sys, MEDIA_MAPPING[medium], base_name)
    IN  IF ~HasJeu(info)
        THEN [r1 EXCEPT ![g] = WithStubName(@, base_name)]
        ELSE IF ExtractionRaises(info.jeu)
             THEN r1
             ELSE LET r2 == [r1 EXCEPT ![g] = WithMetadata(@, info.jeu, base_name)]
                  IN  IF asset
                      THEN [r2 EXCEPT ![g] = WithAssetNode(@, tag_mapping[medium], path)]
                      ELSE r2

\* the task runs on the loaded document
ApplyFirst ==
    /\ idem.step = 0
    /\ idem' = [idem EXCEPT !.step = 1,
                            !.once = ApplyTask(idem.doc, SystemOrder[1], idem.rom,
                                               idem.info, idem.asset)]
    /\ UNCHANGED <<cli, ui, audit, scan, tasks, remote, loaded, docs, persisted, files, lock,
                   cancelled, completed, next, th, status, events, reports, periodic>>

\* the same task, with the same answer and the same download outcome,
\* runs on the document the first run left
ApplySecond ==
    /\ idem.step = 1
    /\ idem' = [idem EXCEPT !.step = 2,
                            !.twice = ApplyTask(idem.once, SystemOrder[1], idem.rom,
                                                idem.info, idem.asset)]
    /\ UNCHANGED <<cli, ui, audit, scan, tasks, remote, loaded, docs, persisted, files, lock,
                   cancelled, completed, next, th, status, events, reports, periodic>>

\* the documents a gamelist.xml can load to
IdemDocs ==
    {<<>>,
     <<ExistingGame(DotSlash \o RomS)>>,
     <<ExistingGameWithImage(DotSlash \o RomS)>>,
     <<DoubleNameGame(DotSlash \o RomS)>>,
     <<ExistingGame(DotDotSlash \o RomSUpper)>>,
     <<ExistingGame(DotSlash \o RomSUpper)>>,
     <<ExistingGame(DotDotSlash \o RomS)>>,
     <<ExistingGame(RomT), ExistingGame(DotBackslash \o RomS)>>}

IdemInfos == {InfoNone, InfoNoJeu, InfoJeu(JeuOk), InfoJeu(JeuBadRating)}

InitIdem ==
    /\ idem \in {[IdemIdle EXCEPT !.doc = d, !.rom = r, !.info = i, !.asset = a] :
                    d \in IdemDocs, r \in {RomS, RomT}, i \in IdemInfos, a \in BOOLEAN}
    /\ scan = ScanIdle
    /\ ui = UiRunning
    /\ audit = AuditIdle
    /\ persisted = [s \in Systems |-> FileAbsent]
    /\ files = {}
    /\ tasks = <<>>
    /\ remote = <<>>
    /\ loaded = [s \in Systems |-> <<>>]
    /\ docs = loaded
    /\ lock = NoThread
    /\ cancelled = FALSE
    /\ completed = 0
    /\ next = 1
    /\ th = [t \in Threads |-> IdleLocals]
    /\ status = <<>>
    /\ events = <<>>
    /\ reports = [count |-> 0, last |-> 0]
    /\ periodic = [emitted |-> 0, multiples |-> 0, triggers |-> 0]
    /\ cli = CliIdle

NextIdem == ApplyFirst \/ ApplySecond

(***************************************************************************)
(* Field extraction: one task with an answer that holds a game, applied to *)
(* a document, over the shapes the fields of the answer can take.          *)
(***************************************************************************)
ExtractDates ==
    {Missing, NotStr, <<>>,
     <<"2", "0", "2", "0", "-", "0", "5", "-", "0", "1">>,
     <<"1", "9", "9", "8">>,
     <<"2", "0", "2", "0", "-", "0", "5">>,
     <<"n", "o", "n", "e">>}

ExtractNotes ==
    {Missing, <<>>, <<"0">>, <<"1", "8">>, <<"2", "0">>, <<"7", ".", "5">>, <<"x">>}

ExtractJeux ==
    {[JeuOk EXCEPT !.dates = da, !.note = no, !.joueurs = jo, !.synopsis = sy,
                   !.developpeur = de, !.editeur = ed, !.genres = ge] :
        da \in ExtractDates, no \in ExtractNotes,
        jo \in {Missing, <<>>, <<"2">>}, sy \in {Missing, <<>>, <<"d">>},
        de \in {Missing, <<"D">>}, ed \in {Missing, <<"E">>}, ge \in {Missing, <<"G">>}}

InitExtract ==
    /\ idem \in {[IdemIdle EXCEPT !.doc = d, !.rom = RomS, !.info = InfoJeu(j),
                                   !.asset = a] :
                    d \in {<<>>, <<ExistingGame(DotSlash \o RomS)>>},
                    j \in ExtractJeux, a \in BOOLEAN}
    /\ scan = ScanIdle
    /\ ui = UiRunning
    /\ audit = AuditIdle
    /\ persisted = [s \in Systems |-> FileAbsent]
    /\ files = {}
    /\ tasks = <<>>
    /\ remote = <<>>
    /\ loaded = [s \in Systems |-> <<>>]
    /\ docs = loaded
    /\ lock = NoThread
    /\ cancelled = FALSE
    /\ completed = 0
    /\ next = 1
    /\ th = [t \in Threads |-> IdleLocals]
    /\ status = <<>>
    /\ events = <<>>
    /\ reports = [count |-> 0, last |-> 0]
    /\ periodic = [emitted |-> 0, multiples |-> 0, triggers |-> 0]
    /\ cli = CliIdle

NextExtract == ApplyFirst

SpecExtract == InitExtract /\ [][NextExtract]_vars

SpecIdem == InitIdem /\ [][NextIdem]_vars

(***************************************************************************)
(* The audit, run_check_media_worker: for each selected system the rom     *)
(* directory is listed, the gamelist is read, each rom is looked at, and a *)
(* row of counts is added to the table.                                    *)
(***************************************************************************)
\* the listing of a rom folder that does not exist
NoFolder == <<NoNode>>

\* games_metadata: for each game with a path node whose text is not empty,
\* the key basename(path).lower() and has_desc, in document order (a later
\* record of a key replaces an earlier one in the dict)
RECURSIVE AuditMetadata(_, _)
AuditMetadata(root, nt) ==
    IF root = <<>> THEN <<>>
    ELSE LET game == root[1]
             rest == AuditMetadata(Tail(root), nt)
             p    == Find(game, "path")
         IN  IF p = NoNode \/ p.text = <<>> THEN rest
             ELSE <<[key |-> Lower(Basename(p.text, nt)),
                     has_desc |-> Strip(Find(game, "desc").text) # <<>>]>> \o rest

\* games_metadata.get(key): the entry written last for the key, or None
MetaHas(meta, key) == \E i \in 1..Len(meta) : meta[i].key = key

MetaGet(meta, key) ==
    meta[CHOOSE i \in 1..Len(meta) :
            /\ meta[i].key = key
            /\ \A j \in (i + 1)..Len(meta) : meta[j].key # key]

NoStats == [total |-> 0, miss_media |-> 0, miss_desc |-> 0, no_gamelist |-> 0]

\* a row of the table; na: the four cells read "N/A"
Row(sys, st, na) == [sys |-> sys, na |-> na, stats |-> st]

AuditSys == SystemOrder[audit.si]
AuditRoms == SelectSeq(audit.dir[AuditSys], AuditIsRom)

\* the thread worker of run_scrape_worker exists and has not returned
RunInFlight ==
    /\ ui.state = "running"
    /\ th[RunThread].pc \in {"scan", "scanned", "start", "pool", "post", "save",
                              "in_save", "finish"}

\* the loop goes to the next system, or the audit is complete
AfterSystem == IF audit.si = Len(SystemOrder) THEN "done" ELSE "systems"

\* the call of run_check_media_worker: the worker is exclusive, so the
\* workers that run are cancelled when it is created; then the worker
\* checks the two directories and the selection
AuditStart ==
    /\ audit.pc = "off"
    /\ cancelled' = (cancelled \/ RunInFlight)
    /\ audit' = [audit EXCEPT
                    !.pc = IF /\ Strip(ui.fields["rom-dir"]) # <<>>
                              /\ Strip(ui.fields["scrape-dir"]) # <<>>
                              /\ ui.systems # <<>>
                           THEN "systems" ELSE "invalid",
                    !.si = 1]
    /\ UNCHANGED <<cli, ui, scan, idem, tasks, remote, loaded, docs, persisted, files, lock,
                   completed, next, th, status, events, reports, periodic>>

\* one system up to its rom loop: no folder gives the row N/A, no rom the
\* row of zeros; else the gamelist is read (a file that does not parse
\* gives no metadata)
AuditSystem ==
    /\ audit.pc = "systems"
    /\ IF audit.dir[AuditSys] = NoFolder
       THEN audit' = [audit EXCEPT !.rows = Append(@, Row(AuditSys, NoStats, TRUE)),
                                   !.si = @ + 1, !.pc = AfterSystem]
       ELSE IF AuditRoms = <<>>
            THEN audit' = [audit EXCEPT !.rows = Append(@, Row(AuditSys, NoStats, FALSE)),
                                        !.si = @ + 1, !.pc = AfterSystem]
            ELSE audit' = [audit EXCEPT
                             !.stats = [NoStats EXCEPT !.total = Len(AuditRoms)],
                             !.meta = IF persisted[AuditSys].state = "ok"
                                      THEN AuditMetadata(persisted[AuditSys].root, audit.nt)
                                      ELSE <<>>,
                             !.ri = 1, !.pc = "roms"]
    /\ UNCHANGED <<cli, ui, scan, idem, tasks, remote, loaded, docs, persisted, files, lock,
                   cancelled, completed, next, th, status, events, reports, periodic>>

\* one rom: the media of the selected types, then the metadata
AuditRom ==
    /\ audit.pc = "roms"
    /\ audit.ri <= Len(AuditRoms)
    /\ LET rom       == AuditRoms[audit.ri]
           missing   == {m \in audit.selected :
                            /\ m \in DOMAIN MEDIA_MAPPING
                            /\ MediaFile(AuditSys, MEDIA_MAPPING[m], SplitextBase(rom))
                                  \notin files}
           no_entry  == ~MetaHas(audit.meta, Lower(rom))
           no_desc   == ~no_entry /\ ~MetaGet(audit.meta, Lower(rom)).has_desc
           msgs      == {<<"Missing", m>> : m \in missing}
                          \cup (IF no_entry THEN {<<"No Gamelist Entry">>} ELSE {})
                          \cup (IF no_desc THEN {<<"Missing Description">>} ELSE {})
       IN  audit' = [audit EXCEPT
                       !.stats = [@ EXCEPT
                                    !.miss_media = IF missing # {} THEN @ + 1 ELSE @,
                                    !.no_gamelist = IF no_entry THEN @ + 1 ELSE @,
                                    !.miss_desc = IF no_desc THEN @ + 1 ELSE @],
                       !.lines = IF msgs # {}
                                 THEN @ \cup {[sys |-> AuditSys, rom |-> rom, msgs |-> msgs]}
                                 ELSE @,
                       !.ri = @ + 1]
    /\ UNCHANGED <<cli, ui, scan, idem, tasks, remote, loaded, docs, persisted, files, lock,
                   cancelled, completed, next, th, status, events, reports, periodic>>

\* the row of the system, after its last rom
AuditRow ==
    /\ audit.pc = "roms"
    /\ audit.ri > Len(AuditRoms)
    /\ audit' = [audit EXCEPT !.rows = Append(@, Row(AuditSys, audit.stats, FALSE)),
                              !.stats = NoStats, !.meta = <<>>, !.ri = 0,
                              !.si = @ + 1, !.pc = AfterSystem]
    /\ UNCHANGED <<cli, ui, scan, idem, tasks, remote, loaded, docs, persisted, files, lock,
                   cancelled, completed, next, th, status, events, reports, periodic>>

AuditListings ==
    {[s \in Systems |-> IF s = SystemOrder[1] THEN a ELSE b] :
        a \in {<<RomS>>, <<RomS, NotARom, RomT>>},
        b \in {NoFolder, <<>>, <<RomS>>}}

\* a gamelist with two records of one rom, the second without description
TwoRecordsOfOneRom ==
    <<ExistingGame(DotSlash \o RomS),
      <<Node("path", RomS), Node("name", <<"o">>)>>>>

InitAudit ==
    /\ audit \in {[AuditIdle EXCEPT !.nt = nt, !.selected = sel, !.dir = ls] :
                     nt \in BOOLEAN, sel \in ScanSelections, ls \in AuditListings}
    /\ ui = [UiRunning EXCEPT !.state = "form"]
    /\ persisted \in {[s \in Systems |-> IF s = SystemOrder[1] THEN f ELSE FileAbsent] :
                         f \in ScanFiles \cup {FileOf(TwoRecordsOfOneRom)}}
    /\ files \in ScanMedia
    /\ scan = ScanIdle
    /\ idem = IdemIdle
    /\ tasks = <<>>
    /\ remote = <<>>
    /\ loaded = [s \in Systems |-> <<>>]
    /\ docs = loaded
    /\ lock = NoThread
    /\ cancelled = FALSE
    /\ completed = 0
    /\ next = 1
    /\ th = [t \in Threads |-> IdleLocals]
    /\ status = <<>>
    /\ events = <<>>
    /\ reports = [count |-> 0, last |-> 0]
    /\ periodic = [emitted |-> 0, multiples |-> 0, triggers |-> 0]
    /\ cli = CliIdle

NextAudit == AuditStart \/ AuditSystem \/ AuditRom \/ AuditRow

SpecAudit == InitAudit /\ [][NextAudit]_vars

(***************************************************************************)
(* The application: the form, start_scraping, the scan, the load of the    *)
(* documents, the pool, and the audit the CHECK button starts at any time. *)
(***************************************************************************)
\* the validation of start_scraping without the password
ConfigCompleteNoPassword ==
    /\ \A f \in RequiredFields \ {"password"} : Strip(ui.fields[f]) # <<>>
    /\ ui.systems # <<>>

\* "all([rom_dir, scrape_dir, user, password, devid, devpassword])" on the
\* stripped values get_input_value returns, and "selected_eids"
ConfigComplete ==
    /\ \A f \in RequiredFields : Strip(ui.fields[f]) # <<>>
    /\ ui.systems # <<>>

\* start_scraping: the request is turned down with a log line, or the
\* widgets are disabled and run_scrape_worker starts at its scan
StartScraping(fix_mode) ==
    /\ ui.state = "form"
    /\ IF ConfigComplete
       THEN /\ ui' = [ui EXCEPT !.state = "running"]
            /\ scan' = [scan EXCEPT !.fix_mode = fix_mode, !.si = 1]
            /\ th' = [th EXCEPT ![RunThread].pc = "scan"]
       ELSE /\ ui' = [ui EXCEPT !.state = "rejected"]
            /\ UNCHANGED <<scan, th>>
    /\ UNCHANGED <<cli, audit, idem, tasks, remote, loaded, docs, persisted, files, lock,
                   cancelled, completed, next, status, events, reports, periodic>>

\* system_groups: the document of every selected system, loaded or new;
\* the answers of the catalog for the tasks of the run are fixed here
LoadGamelists ==
    /\ th[RunThread].pc = "scanned"
    /\ loaded' = [s \in Systems |-> LoadGamelist(persisted[s])]
    /\ docs' = loaded'
    /\ remote' = [i \in 1..Len(tasks) |-> CatalogAnswer(tasks[i].sys, tasks[i].rom)]
    /\ status' = [i \in 1..Len(tasks) |-> "queued"]
    /\ events' = [i \in 1..Len(tasks) |-> 0]
    /\ th' = [th EXCEPT ![RunThread].pc = "start"]
    /\ UNCHANGED <<cli, ui, audit, scan, idem, tasks, persisted, files, lock, cancelled,
                   completed, next, reports, periodic>>

\* the forms: complete, or one required field empty or blank
AppForms ==
    {[f \in RequiredFields |-> <<"x">>]}
      \cup {[f \in RequiredFields |-> IF f = g THEN v ELSE <<"x">>] :
                g \in RequiredFields, v \in {<<>>, <<" ">>}}

AppListing == [s \in Systems |-> <<RomS>>]

InitApp ==
    /\ ui \in {[fields |-> c, systems |-> sy, state |-> "form"] :
                  c \in AppForms, sy \in {<<>>, SystemOrder}}
    /\ scan = [ScanIdle EXCEPT !.dir = AppListing]
    /\ audit = [AuditIdle EXCEPT !.dir = AppListing, !.selected = selected_media_types]
    /\ idem = IdemIdle
    /\ persisted \in {[s \in Systems |-> IF s = SystemOrder[1] THEN f ELSE FileAbsent] :
                         f \in {FileAbsent, FileOf(<<ExistingGame(DotSlash \o RomS)>>)}}
    /\ files \in InitialMedia
    /\ tasks = <<>>
    /\ remote = <<>>
    /\ loaded = [s \in Systems |-> <<>>]
    /\ docs = loaded
    /\ lock = NoThread
    /\ cancelled = FALSE
    /\ completed = 0
    /\ next = 1
    /\ th = [t \in Threads |-> IdleLocals]
    /\ status = <<>>
    /\ events = <<>>
    /\ reports = [count |-> 0, last |-> 0]
    /\ periodic = [emitted |-> 0, multiples |-> 0, triggers |-> 0]
    /\ cli = CliIdle

NextApp ==
    \/ \E fix_mode \in BOOLEAN : StartScraping(fix_mode)
    \/ ScanSystem
    \/ ScanRom
    \/ ScanExtend
    \/ ScanEnd
    \/ LoadGamelists
    \/ Next
    \/ AuditStart
    \/ AuditSystem
    \/ AuditRom
    \/ AuditRow

SpecApp == InitApp /\ [][NextApp]_vars

(***************************************************************************)
(* The audit and the scan of a run on one state of the disk: the CHECK     *)
(* button and the START or FIX button pressed in either order, the pool    *)
(* left out, so that the rom folders, the gamelist files and the media     *)
(* files are the same for both.                                            *)
(***************************************************************************)
\* a rom whose extension is in rom_exts of the scan only
RomMd == <<"m", ".", "m", "d">>

RefineListings ==
    {[s \in Systems |-> IF s = SystemOrder[1] THEN a ELSE b] :
        a \in {<<RomS>>, <<RomS, RomMd>>, <<RomS, RomT>>},
        b \in {<<>>, <<RomS>>}}

RefineFiles ==
    {FileAbsent,
     FileCorrupt(<<ExistingGame(DotSlash \o RomS)>>),
     FileOf(<<ExistingGame(DotSlash \o RomS)>>),
     FileOf(<<ExistingGame(DotSlash \o RomS), ExistingGame(DotSlash \o RomT)>>),
     FileOf(TwoRecordsOfOneRom)}

RefineMedia ==
    SUBSET {MediaFile(SystemOrder[1], MEDIA_MAPPING["box-2D"], SplitextBase(RomS))}

InitRefine ==
    /\ \E sel \in {{}, {"box-2D"}}, ls \in RefineListings :
          /\ scan = [ScanIdle EXCEPT !.selected = sel, !.dir = ls]
          /\ audit = [AuditIdle EXCEPT !.selected = sel, !.dir = ls]
    /\ ui = [UiRunning EXCEPT !.state = "form"]
    /\ persisted \in {[s \in Systems |-> IF s = SystemOrder[1] THEN f ELSE FileAbsent] :
                         f \in RefineFiles}
    /\ files \in RefineMedia
    /\ idem = IdemIdle
    /\ tasks = <<>>
    /\ remote = <<>>
    /\ loaded = [s \in Systems |-> <<>>]
    /\ docs = loaded
    /\ lock = NoThread
    /\ cancelled = FALSE
    /\ completed = 0
    /\ next = 1
    /\ th = [t \in Threads |-> IdleLocals]
    /\ status = <<>>
    /\ events = <<>>
    /\ reports = [count |-> 0, last |-> 0]
    /\ periodic = [emitted |-> 0, multiples |-> 0, triggers |-> 0]
    /\ cli = CliIdle

NextRefine ==
    \/ \E fix_mode \in BOOLEAN : StartScraping(fix_mode)
    \/ ScanSystem
    \/ ScanRom
    \/ ScanExtend
    \/ ScanEnd
    \/ AuditStart
    \/ AuditSystem
    \/ AuditRom
    \/ AuditRow

SpecRefine == InitRefine /\ [][NextRefine]_vars

(***************************************************************************)
(* The command-line runner, main of scraper.py: a pool of threads runs     *)
(* process_rom on each scheduled rom; the progress line is numbered and    *)
(* printed inside print_lock.                                              *)
(***************************************************************************)
\* a print_lock that lets every thread in
PrintLockFreeNoWait == TRUE

\* entering "with print_lock" waits until no thread is inside
PrintLockFree == cli.print_lock = NoThread

CliUnchanged ==
    UNCHANGED <<ui, audit, scan, idem, tasks, remote, loaded, docs, persisted, files, lock,
                cancelled, completed, next, th, status, events, reports, periodic>>

\* executor.map hands the next rom to an idle pool thread
CliStartTask(t) ==
    /\ cli.w[t].pc = "idle"
    /\ cli.next <= CliRoms
    /\ cli' = [cli EXCEPT !.next = @ + 1,
                          !.w[t] = [pc |-> "fetch", cur |-> cli.next, tmp |-> 0]]
    /\ CliUnchanged

\* info = fetch_game_info(...): the call returns, with an answer or None
CliFetch(t) ==
    /\ cli.w[t].pc = "fetch"
    /\ cli' = [cli EXCEPT !.w[t].pc = "xml"]
    /\ CliUnchanged

\* "with xml_lock": the game element and its path node
CliAddGame(t) ==
    /\ cli.w[t].pc = "xml"
    /\ cli' = [cli EXCEPT !.games = Append(@, cli.w[t].cur), !.w[t].pc = "print"]
    /\ CliUnchanged

\* "with print_lock:" is entered
CliAcquirePrint(t) ==
    /\ cli.w[t].pc = "print"
    /\ PrintLockFree
    /\ cli' = [cli EXCEPT !.print_lock = t, !.w[t].pc = "count_read"]
    /\ CliUnchanged

\* "count += 1": the read of the shared counter
CliCountRead(t) ==
    /\ cli.w[t].pc = "count_read"
    /\ cli' = [cli EXCEPT !.w[t].tmp = cli.count, !.w[t].pc = "count_write"]
    /\ CliUnchanged

\* "count += 1": the write
CliCountWrite(t) ==
    /\ cli.w[t].pc = "count_write"
    /\ cli' = [cli EXCEPT !.count = cli.w[t].tmp + 1, !.w[t].pc = "line"]
    /\ CliUnchanged

\* print(f"[{count}/{total_roms}] Processing {rom_name}... {status}"), and
\* print_lock is left
CliPrintLine(t) ==
    /\ cli.w[t].pc = "line"
    /\ cli' = [cli EXCEPT !.lines = Append(@, [index |-> cli.count, rom |-> cli.w[t].cur]),
                          !.print_lock = NoThread,
                          !.w[t].pc = "rest"]
    /\ CliUnchanged

\* the rest of process_rom: the stub name or the metadata and the media;
\* the pool thread is idle again
CliEndTask(t) ==
    /\ cli.w[t].pc = "rest"
    /\ cli' = [cli EXCEPT !.w[t] = [pc |-> "idle", cur |-> 0, tmp |-> 0]]
    /\ CliUnchanged

InitCli ==
    /\ tasks = <<>>
    /\ remote = <<>>
    /\ persisted = [s \in Systems |-> FileAbsent]
    /\ files = {}
    /\ InitCommon

NextCli ==
    \E t \in Workers :
        \/ CliStartTask(t)
        \/ CliFetch(t)
        \/ CliAddGame(t)
        \/ CliAcquirePrint(t)
        \/ CliCountRead(t)
        \/ CliCountWrite(t)
        \/ CliPrintLine(t)
        \/ CliEndTask(t)

SpecCli == InitCli /\ [][NextCli]_vars

(***************************************************************************)
(* Notions the properties are stated with.                                 *)
(***************************************************************************)
\* the normalized key of a path: a leading ./, .\ or ../ stripped, then
\* lower-cased
StripPrefix(p) ==
    IF StartsWith(p, DotDotSlash) THEN DropFirst(p, 3)
    ELSE IF StartsWith(p, DotSlash) \/ StartsWith(p, DotBackslash) THEN DropFirst(p, 2)
         ELSE p

NormKey(p) == Lower(StripPrefix(p))

\* the normalized keys of the records of a document that have a path
KeyAt(root, i) == NormKey(Find(root[i], "path").text)

NoDuplicateKeys(root) ==
    \A i, j \in 1..Len(root) :
        (/\ i < j
         /\ Find(root[i], "path") # NoNode
         /\ Find(root[j], "path") # NoNode) => KeyAt(root, i) # KeyAt(root, j)

TasksOf(s) == {i \in TaskIds : tasks[i].sys = s}

\* the task has been through its first locked block
Upserted(i) ==
    \/ status[i] \in {"finished", "raised"}
    \/ \E w \in Workers :
          th[w].cur = i /\ th[w].pc \notin {"idle", "fetch", "upsert", "in_upsert"}

Ended(i) == status[i] \in {"finished", "raised"}

\* positions of a thread inside a locked block: the four blocks of a task
\* that edit a document, and the loop that serializes the documents
InsidePcs == {"in_upsert", "in_stub", "in_meta", "in_node", "in_save"}

\* positions of a thread inside a network call
NetworkPcs == {"fetch", "download"}

(***************************************************************************)
(* C1: no document ever holds two records whose paths normalize to the     *)
(* same key, the loaded documents holding none.                            *)
(***************************************************************************)
C1_NoDuplicateKeys == \A s \in Systems : NoDuplicateKeys(docs[s])

(***************************************************************************)
(* C2: tasks of pairwise distinct keys upserted by concurrent workers into *)
(* one document: every key that was not there adds exactly one record, and *)
(* every upserted task has exactly one record, under every interleaving.   *)
(***************************************************************************)
DistinctTaskKeys(s) ==
    \A i, j \in TasksOf(s) : i # j => NormKey(tasks[i].rom) # NormKey(tasks[j].rom)

NewKeys(s) == {i \in TasksOf(s) : Upserted(i) /\ FindGame(loaded[s], tasks[i].rom) = 0}

C2_DisjointKeysAllInserted ==
    \A s \in Systems :
        DistinctTaskKeys(s) =>
            /\ Len(docs[s]) = Len(loaded[s]) + Cardinality(NewKeys(s))
            /\ \A i \in TasksOf(s) :
                  Upserted(i) =>
                      Cardinality({g \in 1..Len(docs[s]) :
                                      PathMatches(docs[s][g], tasks[i].rom)}) = 1

\* two workers are past the upsert of two new keys of one document at once
C2_Witness ==
    \E v, w \in Workers :
        /\ v # w
        /\ th[v].pc \in {"log", "stub", "meta"}
        /\ th[w].pc \in {"log", "stub", "meta"}
        /\ CurTask(v).sys = CurTask(w).sys
        /\ DistinctTaskKeys(CurTask(v).sys)
        /\ {th[v].cur, th[w].cur} \subseteq NewKeys(CurTask(v).sys)
        /\ Len(docs[CurTask(v).sys]) = Len(loaded[CurTask(v).sys]) + 2

(***************************************************************************)
(* C3: at most one thread at a time is mutating or serializing: a thread   *)
(* inside a locked block (the four editing blocks of a task, the loop of   *)
(* save_all_gamelists) holds the lock, and the documents and the files     *)
(* change only by a step of the thread that holds it.                      *)
(***************************************************************************)
C3_OneMutator ==
    /\ [](\A t \in Threads : th[t].pc \in InsidePcs => lock = t)
    /\ [][docs' # docs =>
            \E w \in Workers :
                th[w].pc \in InsidePcs /\ lock = w /\ th'[w].pc # th[w].pc]_vars
    /\ [][persisted' # persisted =>
            \E t \in Threads : th[t].pc = "in_save" /\ lock = t]_vars

\* a thread is inside a block while another waits at one
C3_Witness ==
    \E t \in Threads, w \in Workers :
        /\ t # w
        /\ th[t].pc \in InsidePcs
        /\ lock = t
        /\ th[w].pc \in LockPcs

(***************************************************************************)
(* C4: a thread inside a network call (the metadata fetch, a media         *)
(* download) does not hold the lock.                                       *)
(***************************************************************************)
C4_NoLockAcrossNetwork ==
    \A w \in Workers : th[w].pc \in NetworkPcs => lock # w

\* a download is in progress, after the locked blocks of its task
C4_Witness ==
    \E w \in Workers :
        /\ th[w].pc = "download"
        /\ Find(docs[CurTask(w).sys][th[w].elem], "name") # NoNode

(***************************************************************************)
(* C5: every task that was started and has ended emitted exactly one       *)
(* progress event, and the events never outnumber the tasks.               *)
(***************************************************************************)
C5_OneEventPerStartedTask ==
    /\ \A i \in TaskIds : Ended(i) => events[i] = 1
    /\ periodic.emitted <= NumTasks

(***************************************************************************)
(* C6: the k-th completion report carries the index k.                     *)
(***************************************************************************)
C6_IndexIsOrdinal == reports.count > 0 => reports.last = reports.count

(***************************************************************************)
(* C7: once cancellation is requested no queued task starts its fetch; a   *)
(* task in flight at that time ends with its completion event; the count   *)
(* of completed tasks stays within the number of tasks.                    *)
(***************************************************************************)
C7_Cancellation ==
    [][/\ cancelled =>
            \A i \in TaskIds : status[i] = "queued" => status'[i] # "running"
       /\ \A i \in TaskIds :
            (cancelled /\ status[i] = "running" /\ status'[i] # "running")
                => (Ended(i)' /\ events'[i] = 1)
       /\ completed' <= NumTasks]_vars

(***************************************************************************)
(* C8: every time the number of completed tasks reaches a multiple of 10,  *)
(* a flush is triggered: when the pool has drained, no multiple was left   *)
(* without its flush.                                                      *)
(***************************************************************************)
C8_FlushAtEveryMultiple == PoolDrained => periodic.triggers >= periodic.multiples

(***************************************************************************)
(* C9: a run that was not cancelled ends with every document persisted as  *)
(* it is in memory, holding a record for every scheduled rom.              *)
(***************************************************************************)
AllPersisted == \A s \in Systems : persisted[s] = FileOf(docs[s])

EveryTaskHasRecord ==
    \A i \in TaskIds : FindGame(docs[tasks[i].sys], tasks[i].rom) # 0

C10_FlushDoesNotBlockOtherSystem ==
    \A t \in Threads, w \in Workers :
        (/\ th[t].pc = "in_save"
         /\ th[w].pc = "upsert"
         /\ CurTask(w).sys # SystemOrder[th[t].fs]) => ENABLED Acquire(w)

(***************************************************************************)
(* C11: no step of a task removes or changes an asset-reference node that  *)
(* a record already holds -- whether the fetch failed, only the scalar     *)
(* metadata was refreshed, or the asset was fetched again: the records     *)
(* keep their place and each keeps its first node of every asset tag.      *)
(***************************************************************************)
AssetTags == {tag_mapping[m] : m \in DOMAIN tag_mapping}

C11_AssetNodesPreserved ==
    [][\A s \in Systems : \A g \in 1..Len(docs[s]) : \A tag \in AssetTags :
            Find(docs[s][g], tag) # NoNode =>
                /\ g <= Len(docs'[s])
                /\ Find(docs'[s][g], tag) = Find(docs[s][g], tag)]_vars

\* a task has ended on a record that came with a cover reference: its
\* scalar nodes were cleared and written again, the reference is as it was
C11_Witness ==
    \E i \in TaskIds :
        LET s == tasks[i].sys
            g == FindGame(loaded[s], tasks[i].rom)
        IN  /\ Ended(i)
            /\ g # 0
            /\ Find(loaded[s][g], "image") = Node("image", OldImage)
            /\ Find(docs[s][g], "image") = Node("image", OldImage)
            /\ Find(docs[s][g], "name") # Find(loaded[s][g], "name")

(***************************************************************************)
(* C12: when the asset of a selected type was missing, was downloaded      *)
(* with success, and the record already holds a reference node for it, the *)
(* node's value is replaced by the freshly computed reference path: the    *)
(* step that handles the node leaves the fresh path in the record.         *)
(***************************************************************************)
C12_AssetNodeReplaced ==
    [][\A w \in Workers :
          (th[w].pc = "in_node" /\ th[w].fetched /\ th'[w].pc # "in_node") =>
              Find(docs'[CurTask(w).sys][th[w].elem], tag_mapping[CurMedia(w).type]).text
                  = RelativeEsPath(CurTask(w).sys, MEDIA_MAPPING[CurMedia(w).type],
                                   CurBase(w))]_vars

(***************************************************************************)
(* C13: a record that a system's file holds is still in the file after     *)
(* every flush that wrote the file, also when the file could not be parsed *)
(* at the start of the run: a write never drops a record.                  *)
(***************************************************************************)
C13_RecordsNeverDropped ==
    [][\A s \in Systems :
          persisted'[s].state = "ok" =>
              \A g \in 1..Len(persisted[s].root) :
                  \E h \in 1..Len(persisted'[s].root) :
                      Find(persisted'[s].root[h], "path")
                          = Find(persisted[s].root[g], "path")]_vars

(***************************************************************************)
(* C14: a task whose fetch failed (no answer, or an answer without a game) *)
(* ends with one completion event and a record whose only scalar           *)
(* node is a name equal to the base name of the rom; it never reaches the  *)
(* metadata block or the media loop; and when the pool is left without a   *)
(* cancellation, every task of the run has been executed.                  *)
(***************************************************************************)
StubRecord(game, base_name) ==
    /\ \A i \in 1..Len(game) :
          game[i].tag \in {ScalarTags[k] : k \in 1..Len(ScalarTags)} =>
              game[i] = Node("name", base_name)
    /\ Cardinality({i \in 1..Len(game) : game[i].tag = "name"}) = 1

MediaPcs == {"meta", "in_meta", "download", "node", "in_node"}

\* the catalog gives no game for the task: no answer at all (an HTTP or
\* transport error), or an answer without a game object
FetchFailed(i) == remote[i].kind \in {"none", "nojeu"}

C15_WriteFailureIsolated ==
    [][\A t \in Threads :
          (th[t].pc = "in_save" /\ th'[t].pc # "in_save") =>
              /\ th[t].fs = Len(SystemOrder)
              /\ th'[t].pc # "crashed"
              /\ (t \in Workers => status'[th[t].cur] = "finished")]_vars

(***************************************************************************)
(* C16: whatever the fields of a game answer hold, the extraction falls    *)
(* back to the defaults: a task that was answered with a game and has      *)
(* ended has written its record, name included, and emitted its            *)
(* completion event.                                                       *)
(***************************************************************************)
C16_ExtractionNeverPropagates ==
    \A i \in TaskIds :
        (remote[i].kind = "jeu" /\ Ended(i)) =>
            /\ events[i] = 1
            /\ FindGame(docs[tasks[i].sys], tasks[i].rom) # 0
            /\ Find(docs[tasks[i].sys][FindGame(docs[tasks[i].sys], tasks[i].rom)],
                    "name") # NoNode

(***************************************************************************)
(* Selection: notions for C17, C18 and C19.                                *)
(***************************************************************************)
\* the rom went through the filter and was kept
Scheduled(e) ==
    \/ \E i \in 1..Len(tasks) : tasks[i] = e
    \/ \E i \in 1..Len(scan.to_scrape) : scan.to_scrape[i] = e

\* the file of every selected asset type is there for the rom
AllMediaPresent(e) ==
    \A m \in scan.selected :
        MediaFile(e.sys, MEDIA_MAPPING[m], SplitextBase(e.rom)) \in files

\* the records of the system's document that are the rom's entry: those
\* whose path has the rom's normalized key
EntriesOf(e) ==
    LET root == LoadGamelist(persisted[e.sys])
    IN  {root[g] : g \in {h \in 1..Len(root) :
                            /\ Find(root[h], "path") # NoNode
                            /\ NormKey(Find(root[h], "path").text) = NormKey(e.rom)}}

\* a description that is not empty and not white space only
HasDescription(game) ==
    /\ Find(game, "desc") # NoNode
    /\ \E i \in 1..Len(Find(game, "desc").text) : Find(game, "desc").text[i] # " "

ScanOver == th[RunThread].pc \in {"nothing", "scanned"}

(***************************************************************************)
(* C17: in full mode a rom that went through the filter is scheduled if    *)
(* and only if the file of at least one selected asset type is absent.     *)
(***************************************************************************)
C17_FullModeSelection ==
    ~scan.fix_mode =>
        \A e \in scan.seen :
            Scheduled(e) <=>
                \E m \in scan.selected :
                    MediaFile(e.sys, MEDIA_MAPPING[m], SplitextBase(e.rom)) \notin files

\* a full-mode scan with two selected types has ended: one rom lacks one
\* of its two files and is scheduled, another rom has both and is not
C17_Witness ==
    /\ ScanOver
    /\ ~scan.fix_mode
    /\ Cardinality(scan.selected) = 2
    /\ \E e \in scan.seen :
          /\ Scheduled(e)
          /\ \E m \in scan.selected :
                MediaFile(e.sys, MEDIA_MAPPING[m], SplitextBase(e.rom)) \in files
    /\ \E e \in scan.seen : ~Scheduled(e)

(***************************************************************************)
(* C18: in fix mode a rom that went through the filter with all its        *)
(* selected media present is scheduled if and only if the document holds   *)
(* no entry of the rom or the entry has no description (none, empty, or    *)
(* white space only).                                                      *)
(***************************************************************************)
C18_FixModeSelection ==
    scan.fix_mode =>
        \A e \in scan.seen :
            AllMediaPresent(e) =>
                (Scheduled(e) <=> ~\E game \in EntriesOf(e) : HasDescription(game))

(***************************************************************************)
(* C19: a second run schedules nothing: when the file of every selected    *)
(* type is there for every rom, and every rom has the record the first run *)
(* wrote its metadata into, with a description, a scan that ends without   *)
(* cancellation leaves the task list empty, in full mode and in fix mode.  *)
(***************************************************************************)
ListedRoms ==
    UNION {{Task(s, RomsOf(scan.dir[s])[i]) : i \in 1..Len(RomsOf(scan.dir[s]))} :
             s \in Systems}

\* the record the upsert of a run finds for the rom holds a description
MetadataPresent(e) ==
    LET root == LoadGamelist(persisted[e.sys])
    IN  /\ FindGame(root, e.rom) # 0
        /\ HasDescription(root[FindGame(root, e.rom)])

C19_SecondRunSchedulesNothing ==
    (/\ ScanOver
     /\ ~cancelled
     /\ \A e \in ListedRoms : AllMediaPresent(e) /\ MetadataPresent(e)) => tasks = <<>>

(***************************************************************************)
(* C20: upsert is idempotent: the document after the same task result      *)
(* (same rom, same answer, same download outcome) was applied twice is the *)
(* document after it was applied once.  Two documents are taken for the    *)
(* same when they hold the same records in the same order and each record  *)
(* gives the same node for every tag it is asked for, so the order of the  *)
(* nodes inside a record does not count.                                   *)
(***************************************************************************)
RecordTags == {"path"} \cup {ScalarTags[i] : i \in 1..Len(ScalarTags)} \cup AssetTags

Fields(game) == [tag \in RecordTags |-> Find(game, tag)]

SameDocument(d1, d2) ==
    /\ Len(d1) = Len(d2)
    /\ \A g \in 1..Len(d1) : Fields(d1[g]) = Fields(d2[g])

C20_UpsertIdempotent == idem.step = 2 => SameDocument(idem.twice, idem.once)

(***************************************************************************)
(* C21: an existing entry whose stored path is "./R", "R" or ".\R" is the  *)
(* entry of the rom file R: the task changes that entry in place (its path *)
(* is kept, its name node is no longer the one it had) and the document    *)
(* has as many entries after the task as before.                           *)
(***************************************************************************)
\* the three spellings of the path of rom R
SpellingsOf(rom) == {<<".", "/">> \o rom, rom, <<".", "\\">> \o rom}

C21_ThreeSpellingsMatched ==
    idem.step >= 1 =>
        \A g \in 1..Len(idem.doc) :
            Find(idem.doc[g], "path").text \in SpellingsOf(idem.rom) =>
                /\ Len(idem.once) = Len(idem.doc)
                /\ Find(idem.once[g], "path") = Find(idem.doc[g], "path")
                /\ Find(idem.once[g], "name") # Find(idem.doc[g], "name")

\* the second entry of the document has the backslash spelling of the rom
\* and a fetched game was written into it
C21_Witness ==
    /\ idem.step = 1
    /\ Len(idem.doc) = 2
    /\ Find(idem.doc[2], "path").text = <<".", "\\">> \o idem.rom
    /\ Len(idem.once) = 2
    /\ Find(idem.once[2], "name").text = <<"N">>

(***************************************************************************)
(* C22: paths are compared after a leading ./, .\ or ../ is stripped and   *)
(* the letters are lower-cased: an existing entry whose stored path        *)
(* differs from the rom's file name in letter case only, or carries a ../  *)
(* prefix, is matched and updated, its stored path kept as it is, and no   *)
(* second entry is inserted.                                               *)
(***************************************************************************)
C22_NormalizedPathsMatched ==
    idem.step >= 1 =>
        \A g \in 1..Len(idem.doc) :
            NormKey(Find(idem.doc[g], "path").text) = NormKey(idem.rom) =>
                /\ Len(idem.once) = Len(idem.doc)
                /\ Find(idem.once[g], "path") = Find(idem.doc[g], "path")
                /\ Find(idem.once[g], "name") # Find(idem.doc[g], "name")

(***************************************************************************)
(* Field extraction: notions for C23, C24 and C25.                         *)
(***************************************************************************)
\* the record the task wrote into
Written == idem.once[Len(idem.once)]

\* the fetch gave a game and the task has run on it
Extracted == idem.step = 1 /\ idem.info.kind = "jeu"

\* the value of the answer is a text that is not empty
NonEmptyText(v) == v \notin {Missing, NotStr, <<>>}

IsIsoDate(d) ==
    /\ Len(d) = 10
    /\ d[5] = "-" /\ d[8] = "-"
    /\ \A i \in {1, 2, 3, 4, 6, 7, 9, 10} : d[i] \in Digits

IsYear(d) == Len(d) = 4 /\ \A i \in 1..4 : d[i] \in Digits

Midnight == <<"T", "0", "0", "0", "0", "0", "0">>

(***************************************************************************)
(* C23: the release date of the record is YYYYMMDD followed by T000000     *)
(* for a 10-character YYYY-MM-DD input, YYYY0101T000000 for a 4-character  *)
(* YYYY input, the input itself for any other non-empty input; no          *)
(* releasedate node is emitted for an empty or missing input.              *)
(***************************************************************************)
C23_ReleaseDateByFormat ==
    Extracted =>
        LET d    == idem.info.jeu.dates
            node == Find(Written, "releasedate")
        IN  IF ~NonEmptyText(d) THEN node = NoNode
            ELSE IF IsIsoDate(d)
                 THEN node.text = <<d[1], d[2], d[3], d[4], d[6], d[7], d[9], d[10]>>
                                     \o Midnight
                 ELSE IF IsYear(d)
                      THEN node.text = d \o <<"0", "1", "0", "1">> \o Midnight
                      ELSE node.text = d

\* C23 as the code has it: the branch is chosen by the length of the input
\* alone: ten characters lose their dashes and get T000000, four
\* characters get 0101T000000, whatever the characters are
C23_ReleaseDateByLength ==
    Extracted =>
        LET d    == idem.info.jeu.dates
            node == Find(Written, "releasedate")
        IN  IF ~NonEmptyText(d) THEN node = NoNode
            ELSE IF Len(d) = 10
                 THEN node.text = SelectSeq(d, LAMBDA c : c # "-") \o Midnight
                 ELSE IF Len(d) = 4
                      THEN node.text = d \o <<"0", "1", "0", "1">> \o Midnight
                      ELSE node.text = d

\* a four-character input that is no year went through the transform
C23_Witness ==
    /\ Extracted
    /\ Len(idem.info.jeu.dates) = 4
    /\ ~IsYear(idem.info.jeu.dates)
    /\ Find(Written, "releasedate") # NoNode

(***************************************************************************)
(* C24: the rating of the record is the numeric raw rating divided by 20,  *)
(* as a decimal string ("18" gives "0.9"); no rating node is emitted when  *)
(* the raw rating is "0", is missing or is not numeric.                    *)
(***************************************************************************)
ExpectedRating(raw) ==
    CASE raw = <<"1", "8">> -> <<"0", ".", "9">>
      [] raw = <<"2", "0">> -> <<"1", ".", "0">>
      [] raw = <<"7", ".", "5">> -> <<"0", ".", "3", "7", "5">>
      [] OTHER -> <<>>

C24_RatingTransform ==
    Extracted =>
        LET raw  == idem.info.jeu.note
            node == Find(Written, "rating")
        IN  IF ExpectedRating(raw) = <<>> THEN node = NoNode
            ELSE node.text = ExpectedRating(raw)

(***************************************************************************)
(* C25: after a successful fetch the record holds a desc, releasedate,     *)
(* developer, publisher, genre or rating node only when the extracted      *)
(* value is not empty, and it always holds a players node, with "1" when   *)
(* the remote gives none.                                                  *)
(***************************************************************************)
C25_OptionalFieldsOnlyWhenNonEmpty ==
    Extracted =>
        LET jeu == idem.info.jeu
        IN  /\ Find(Written, "desc") # NoNode <=> NonEmptyText(jeu.synopsis)
            /\ Find(Written, "releasedate") # NoNode <=> NonEmptyText(jeu.dates)
            /\ Find(Written, "developer") # NoNode <=> NonEmptyText(jeu.developpeur)
            /\ Find(Written, "publisher") # NoNode <=> NonEmptyText(jeu.editeur)
            /\ Find(Written, "genre") # NoNode <=> NonEmptyText(jeu.genres)
            /\ Find(Written, "rating") # NoNode => ExpectedRating(jeu.note) # <<>>
            /\ Find(Written, "players") # NoNode
            /\ ~NonEmptyText(jeu.joueurs) => Find(Written, "players").text = <<"1">>

(***************************************************************************)
(* Media loop: notions for C26 and C27.                                    *)
(***************************************************************************)
\* the destination file of entry j of the media list a thread works on
EntryFile(locals, j) ==
    MediaFile(tasks[locals.cur].sys, MEDIA_MAPPING[locals.info.jeu.medias[j].type],
              SplitextBase(tasks[locals.cur].rom))

\* entry j is of a selected type that has a folder, and carries a url
EntrySelected(locals, j) ==
    /\ locals.info.jeu.medias[j].type \in scan.selected
    /\ locals.info.jeu.medias[j].type \in DOMAIN MEDIA_MAPPING
    /\ locals.info.jeu.medias[j].url

(***************************************************************************)
(* C26: a selected asset whose destination file exists is taken for a      *)
(* success with no GET; otherwise there is a single GET for it, and a GET  *)
(* that fails, by the transport or by the file system, does not raise: the *)
(* task is still running and goes on with the remaining assets of the rom. *)
(***************************************************************************)
C26_DownloadContract ==
    [][\A w \in Workers :
          \* a GET is started only for a file that is not there
          /\ (th'[w].pc = "download" /\ th'[w] # th[w]) =>
                EntryFile(th'[w], th'[w].mi) \notin files'
          \* a success without GET is a file that is there
          /\ (th'[w].pc = "node" /\ th'[w] # th[w] /\ ~th'[w].fetched) =>
                EntryFile(th'[w], th'[w].mi) \in files'
          \* the GET has returned, with or without the file
          /\ (th[w].pc = "download" /\ th'[w] # th[w]) =>
                /\ th'[w].cur = th[w].cur
                /\ status'[th[w].cur] = "running"
                /\ th'[w].pc \in {"download", "node", "inc_read"}
                /\ th'[w].pc = "download" => th'[w].mi > th[w].mi
                /\ th'[w].pc = "node" => th'[w].mi >= th[w].mi
                /\ \A j \in (th[w].mi + 1)..Len(th[w].info.jeu.medias) :
                      (/\ EntrySelected(th[w], j)
                       /\ (th'[w].pc = "inc_read" \/ th'[w].mi > j)) =>
                          /\ EntryFile(th[w], j) \in files'
                          /\ th[w].info.jeu.medias[j].type \notin DOMAIN tag_mapping
    ]_vars

\* the GET of the cover gave no file, and the task is at the GET of the
\* screenshot, the second asset of the rom
C26_Witness ==
    \E w \in Workers :
        /\ th[w].pc = "download"
        /\ th[w].mi = 2
        /\ scan.selected = {"box-2D", "ss"}
        /\ EntryFile(th[w], 1) \notin files
        /\ status[th[w].cur] = "running"

(***************************************************************************)
(* C27: for every selected asset type whose file was downloaded or was     *)
(* already there, the record of the rom holds a reference node of that     *)
(* type, with the value ../downloaded_media/<system>/<folder>/<base>.<ext> *)
(* of the folder and extension mapped to the type; two asset types never   *)
(* share a node and never suppress each other's reference.  Stated on the  *)
(* step that handles a successful asset: when it is over, some node of the *)
(* record has the path of that asset as its value.                         *)
(***************************************************************************)
C27_EachAssetReferenced ==
    [][\A w \in Workers :
          (th[w].pc = "in_node" /\ th'[w].pc # "in_node") =>
              LET sys    == tasks[th[w].cur].sys
                  record == docs'[sys][th[w].elem]
                  m      == th[w].info.jeu.medias[th[w].mi].type
                  value  == RelativeEsPath(sys, MEDIA_MAPPING[m],
                                           SplitextBase(tasks[th[w].cur].rom))
              IN  \E k \in 1..Len(record) : record[k].text = value
    ]_vars

(***************************************************************************)
(* C28: the row of each selected system: total is the number of local      *)
(* roms, missingMedia the number of roms with at least one selected asset  *)
(* file absent, noEntry the number of roms with no document entry,         *)
(* missingDescription the number of roms that have an entry whose          *)
(* description is empty or white space; a rom counts at most once per      *)
(* column, noEntry and missingDescription are disjoint, and a rom has a    *)
(* log line exactly when it counts in some column.  The entries of a rom   *)
(* are the records whose normalized path is the rom's; where a rom has     *)
(* several entries, some with and some without a description, the row may  *)
(* count it or not.                                                        *)
(***************************************************************************)
RomEntries(sys, rom) ==
    LET root == LoadGamelist(persisted[sys])
    IN  {g \in 1..Len(root) :
            /\ Find(root[g], "path") # NoNode
            /\ NormKey(Find(root[g], "path").text) = NormKey(rom)}

Described(sys, g) ==
    LET d == Find(LoadGamelist(persisted[sys])[g], "desc").text
    IN  \E i \in 1..Len(d) : d[i] # " "

LacksMedia(sys, rom, selected) ==
    \E m \in selected :
        MediaFile(sys, MEDIA_MAPPING[m], SplitextBase(rom)) \notin files

C28_AuditRow ==
    \A k \in 1..Len(audit.rows) :
        LET row   == audit.rows[k]
            sys   == row.sys
            roms  == RomsOf(audit.dir[sys])
            R     == 1..Len(roms)
            media == {i \in R : LacksMedia(sys, roms[i], audit.selected)}
            none  == {i \in R : RomEntries(sys, roms[i]) = {}}
            all   == {i \in R : /\ RomEntries(sys, roms[i]) # {}
                                 /\ \A g \in RomEntries(sys, roms[i]) : ~Described(sys, g)}
            some  == {i \in R : \E g \in RomEntries(sys, roms[i]) : ~Described(sys, g)}
            told  == {i \in R : \E l \in audit.lines : l.sys = sys /\ l.rom = roms[i]}
        IN  ~row.na =>
              /\ row.stats.total = Cardinality(R)
              /\ row.stats.miss_media = Cardinality(media)
              /\ row.stats.no_gamelist = Cardinality(none)
              /\ row.stats.miss_desc >= Cardinality(all)
              /\ row.stats.miss_desc <= Cardinality(some)
              /\ media \cup none \cup all \subseteq told
              /\ told \subseteq media \cup none \cup some

(***************************************************************************)
(* C29: the audit is read-only and independent of the sync engine: no step *)
(* of the audit creates or changes a document, a gamelist file or a media  *)
(* file, and starting an audit while a run is in flight does not cancel    *)
(* the run (so its remaining tasks still start and its last flush is still *)
(* done).                                                                  *)
(***************************************************************************)
C29_AuditIndependent ==
    [][audit' # audit =>
          /\ UNCHANGED <<cli, docs, loaded, persisted, files>>
          /\ UNCHANGED <<cli, tasks, next, status, th>>
          /\ cancelled' = cancelled
    ]_vars

(***************************************************************************)
(* C30: when a required field of the form (rom directory, media directory, *)
(* user, password, developer id, developer password) is missing, or no     *)
(* system is selected, the run is aborted before any task is computed or   *)
(* scheduled: no step computes a task, fetches, downloads, changes a       *)
(* document or flushes.                                                    *)
(***************************************************************************)
\* a text with nothing but white space in it
Blank(text) == \A i \in 1..Len(text) : text[i] = " "

ConfigMissing ==
    \/ \E f \in {"rom-dir", "scrape-dir", "user", "password", "devid", "devpassword"} :
          Blank(ui.fields[f])
    \/ ui.systems = <<>>

C30_AbortBeforeScheduling ==
    [][ConfigMissing =>
          /\ UNCHANGED <<cli, scan, tasks, remote, next, status, events, completed>>
          /\ UNCHANGED <<cli, th, lock, loaded, docs, persisted, files>>
    ]_vars

\* a request with the password left blank was turned down
C30_Witness ==
    /\ ui.state = "rejected"
    /\ Blank(ui.fields["password"])
    /\ ui.systems # <<>>
    /\ tasks = <<>>

(***************************************************************************)
(* C31: every game record of every gamelist file that was written carries  *)
(* a name node: no flush captures a record between the step that creates   *)
(* it or clears its scalar nodes and the step that writes its fresh ones.  *)
(***************************************************************************)
C31_PersistedRecordsNamed ==
    \A s \in Systems :
        persisted[s].state = "ok" =>
            \A g \in 1..Len(persisted[s].root) :
                \E k \in 1..Len(persisted[s].root[g]) :
                    persisted[s].root[g][k].tag = "name"

\* the tags of the metadata the upsert refreshes
RefreshedTags ==
    {"name", "desc", "releasedate", "developer", "publisher", "genre",
     "players", "rating"}

IsRefreshed(node) == node.tag \in RefreshedTags

IsKept(node) == node.tag \notin RefreshedTags

\* the records of a document whose path is one of the three spellings of rom
RecordsOf(doc, rom) ==
    {g \in 1..Len(doc) :
        \E k \in 1..Len(doc[g]) :
            /\ doc[g][k].tag = "path"
            /\ doc[g][k].text \in {DotSlash \o rom, rom, DotBackslash \o rom}}

(***************************************************************************)
(* C32: when the fetch fails for a rom that already has a record, the task *)
(* leaves that record with its path and asset-reference nodes untouched,   *)
(* one name node equal to the rom's base filename, and none of its         *)
(* previous name, description, release date, developer, publisher, genre,  *)
(* players and rating.                                                     *)
(***************************************************************************)
C32_FailedFetchLeavesStub ==
    (/\ idem.step >= 1
     /\ idem.info \in {InfoNone, InfoNoJeu}
     /\ RecordsOf(idem.doc, idem.rom) # {})
    => \A g \in RecordsOf(idem.doc, idem.rom) :
          /\ g \in 1..Len(idem.once)
          /\ SelectSeq(idem.once[g], IsKept) = SelectSeq(idem.doc[g], IsKept)
          /\ SelectSeq(idem.once[g], IsRefreshed)
                = <<Node("name", SplitextBase(idem.rom))>>

(***************************************************************************)
(* C33: a download that returns false leaves no file at its destination    *)
(* path, so the asset is still missing for the next run's task selection   *)
(* and for the audit.                                                      *)
(***************************************************************************)
C33_FailedDownloadLeavesNoFile ==
    [][\A w \in Workers :
          (/\ th[w].pc = "download"
           /\ th'[w].pc \notin {"download", "node"})
          => CurMediaFile(w) \notin files']_vars

\* the number of nodes of a record that carry one tag
CountTag(game, tag) == Cardinality({k \in 1..Len(game) : game[k].tag = tag})

\* every record has exactly one path node and at most one node of each
\* refreshed tag
WellFormed(doc) ==
    \A g \in 1..Len(doc) :
        /\ CountTag(doc[g], "path") = 1
        /\ \A tag \in RefreshedTags : CountTag(doc[g], tag) <= 1

(***************************************************************************)
(* C34: when every record of the loaded documents has exactly one path     *)
(* node and at most one node per scalar tag, every record of the documents *)
(* in memory has so too, after any sequence of tasks.                      *)
(***************************************************************************)
C34_RecordsStayWellFormed ==
    (\A s \in Systems : WellFormed(loaded[s]))
    => (\A s \in Systems : WellFormed(docs[s]))

\* a run that ended after a task refreshed a record the document held and
\* another task created a record
C34_Witness ==
    /\ RunEnded
    /\ \A s \in Systems : WellFormed(loaded[s])
    /\ \E s \in Systems :
          /\ Len(docs[s]) > Len(loaded[s])
          /\ \E g \in 1..Len(loaded[s]) :
                /\ CountTag(loaded[s][g], "name") = 1
                /\ docs[s][g] # loaded[s][g]
                /\ CountTag(docs[s][g], "name") = 1

(***************************************************************************)
(* C35: the thread that holds the lock is never waiting for it, every      *)
(* thread that waits at a locked block eventually enters it, and the run   *)
(* never stops with a thread left waiting: it reaches its end.             *)
(***************************************************************************)
C35_LockProgress ==
    /\ [](\A t \in Threads : lock = t => th[t].pc \notin {"upsert", "stub", "meta", "node", "save"})
    /\ \A t \in Threads :
          (th[t].pc \in {"upsert", "stub", "meta", "node", "save"}) ~> (lock = t)
    /\ <>(th[RunThread].pc \in {"done", "crashed"} /\ lock = NoThread)

\* a thread waits at a locked block while another thread is inside one
C35_Witness ==
    \E t \in Threads : \E u \in Threads :
        /\ t # u
        /\ lock = u
        /\ th[t].pc \in {"upsert", "stub", "meta", "node", "save"}

(***************************************************************************)
(* C36: every run that passed validation eventually ends with reset_ui     *)
(* executed, on completion and on cancellation, whether or not a flush     *)
(* fails, network calls returning.                                         *)
(***************************************************************************)
C36_RunEndsWithResetUi == <>(th[RunThread].pc = "done")

\* the audit is over and its row of a system reads no incomplete rom
AuditClean(sys) ==
    /\ audit.pc = "done"
    /\ \E i \in 1..Len(audit.rows) :
          /\ audit.rows[i].sys = sys
          /\ ~audit.rows[i].na
          /\ audit.rows[i].stats.miss_media = 0
          /\ audit.rows[i].stats.miss_desc = 0
          /\ audit.rows[i].stats.no_gamelist = 0
    /\ \A l \in audit.lines : l.sys # sys

(***************************************************************************)
(* C37: when the audit of a system reports no incomplete rom for the       *)
(* selected types, a fix-mode scan of the same folders, files and selected *)
(* types schedules no task for that system.                                *)
(***************************************************************************)
C37_CleanAuditNoFixTask ==
    (/\ th[RunThread].pc \in {"nothing", "scanned"}
     /\ scan.fix_mode
     /\ scan.selected = audit.selected)
    => \A sys \in Systems :
          AuditClean(sys) => \A i \in 1..Len(tasks) : tasks[i].sys # sys

(***************************************************************************)
(* C38: no step of a run creates or rewrites the gamelist file of a        *)
(* selected system that contributed no task to the run: a flush leaves     *)
(* that file as it was.                                                    *)
(***************************************************************************)
C38_FlushLeavesIdleSystems ==
    [][\A s \in Systems :
          (\A i \in 1..Len(tasks) : tasks[i].sys # s) => persisted'[s] = persisted[s]]_vars

(***************************************************************************)
(* C39: in the command-line runner the progress lines carry the indices    *)
(* 1, 2, ... in the order they are printed, each once, and when the pool   *)
(* has drained there is one line for each scheduled rom: the indices are   *)
(* 1..N.                                                                   *)
(***************************************************************************)
C39_CliIndicesInOrder ==
    /\ \A k \in 1..Len(cli.lines) : cli.lines[k].index = k
    /\ Len(cli.lines) <= CliRoms
    /\ (cli.next > CliRoms /\ \A t \in Workers : cli.w[t].pc = "idle")
          => /\ Len(cli.lines) = CliRoms
             /\ \A r \in 1..CliRoms : \E k \in 1..Len(cli.lines) : cli.lines[k].rom = r

\* the pool has drained and the rom handed out second was printed first
C39_Witness ==
    /\ cli.next > CliRoms
    /\ \A t \in Workers : cli.w[t].pc = "idle"
    /\ Len(cli.lines) = CliRoms
    /\ cli.lines[1].rom = 2
    /\ cli.lines[1].index = 1

====
